---------------------------- MODULE Spec2Model ----------------------------
(***************************************************************************)
(* The multi-tenant vector store of cloud_vector_store.py:                 *)
(* CloudVectorStore (collection registry, shared search cache) and         *)
(* CloudSecureCollection (add_documents, search, hybrid reranking, cache). *)
(*                                                                         *)
(* Strings are TLC strings (\o concatenates them, SubSeq slices them).     *)
(* A Python dict is a sequence of <<key, value>> pairs with distinct keys, *)
(* in insertion order.  An Optional value is a sequence of length 0 (None) *)
(* or 1 (the value).  md5 is taken to be injective: a cache key is the     *)
(* string that the code hashes.                                            *)
(***************************************************************************)
EXTENDS Integers, Sequences, FiniteSets, TLC

VARIABLES
    company_collections,  \* CloudVectorStore.company_collections: key -> handle
    provision_calls,      \* client.get_or_create_collection calls made, per name
    index,                \* the backing index: name -> (doc id -> stored doc)
    search_cache,         \* CloudVectorStore.search_cache: key -> (timestamp, results)
    now,                  \* time.time()
    ticks,                \* number of clock advances so far
    ret,                  \* the last call of the sequential caller: its arguments,
                          \* what it handed to the index and how the index
                          \* answered, what it returned; seq alternates from
                          \* one call to the next
    pc,                   \* per thread or task: where it is inside its call
    frame,                \* per thread or task: the locals of its call
    session               \* the RAGEnhancedSession of agent.py (None while
                          \* there is none): google_api_calls, fallback_mode,
                          \* and the original_generate_reply calls made

vars == <<company_collections, provision_calls, index, search_cache,
          now, ticks, ret, pc, frame, session>>

-----------------------------------------------------------------------------
(* Program constants *)

cache_ttl == 300

max_entries == 100

(* Bounds of the model *)

MaxTicks == 2

NThreads == 2

MaxProvision == 2

-----------------------------------------------------------------------------
(* Optional values, Python truthiness *)

None == <<>>

Some(v) == <<v>>

IsNone(o) == Len(o) = 0

Val(o) == o[1]

\* `if x:` for an Optional dict or an Optional list: None and empty are falsy
Truthy(o) == Len(o) = 1 /\ Len(o[1]) > 0

Range(s) == {s[i] : i \in 1..Len(s)}

Min(a, b) == IF a <= b THEN a ELSE b

-----------------------------------------------------------------------------
(* Python dicts *)

DictKeys(d) == {d[i][1] : i \in 1..Len(d)}

DictHas(d, k) == k \in DictKeys(d)

DictGet(d, k) == d[CHOOSE i \in 1..Len(d) : d[i][1] = k][2]

\* d[k] = v: an existing key keeps its position, a new key goes last
DictSet(d, k, v) ==
    IF DictHas(d, k)
    THEN [i \in 1..Len(d) |-> IF d[i][1] = k THEN <<k, v>> ELSE d[i]]
    ELSE Append(d, <<k, v>>)

\* d.update(e)
RECURSIVE DictUpdate(_, _)
DictUpdate(d, e) ==
    IF Len(e) = 0 THEN d
    ELSE DictUpdate(DictSet(d, e[1][1], e[1][2]), Tail(e))

-----------------------------------------------------------------------------
(* Strings *)

\* the lower-case letter of each upper-case letter
LowerOf ==
    [A |-> "a", B |-> "b", C |-> "c", D |-> "d", E |-> "e", F |-> "f", G
     |-> "g", H |-> "h", I |-> "i", J |-> "j", K |-> "k", L |-> "l", M
     |-> "m", N |-> "n", O |-> "o", P |-> "p", Q |-> "q", R |-> "r", S
     |-> "s", T |-> "t", U |-> "u", V |-> "v", W |-> "w", X |-> "x", Y
     |-> "y", Z |-> "z"]

LowerLetters ==
    {"a", "b", "c", "d", "e", "f", "g", "h", "i", "j", "k", "l", "m", "n",
     "o", "p", "q", "r", "s", "t", "u", "v", "w", "x", "y", "z"}

Digits == {"0", "1", "2", "3", "4", "5", "6", "7", "8", "9"}

Char(s, i) == SubSeq(s, i, i)

\* one character of str.lower()
LowerChar(c) == IF c \in DOMAIN LowerOf THEN LowerOf[c] ELSE c

\* str.lower()
RECURSIVE Lower(_)
Lower(s) ==
    IF Len(s) = 0 THEN s
    ELSE LowerChar(Char(s, 1)) \o Lower(SubSeq(s, 2, Len(s)))

\* the regular expression class \w
IsWordChar(c) ==
    c \in LowerLetters \/ c \in DOMAIN LowerOf \/ c \in Digits \/ c = "_"

\* `sub in s`
Contains(s, sub) ==
    \E i \in 1..(Len(s) - Len(sub) + 1) : SubSeq(s, i, i + Len(sub) - 1) = sub

\* s.startswith(prefix)
StartsWith(s, prefix) ==
    Len(prefix) <= Len(s) /\ SubSeq(s, 1, Len(prefix)) = prefix

\* sep.join(parts)
RECURSIVE Join(_, _)
Join(sep, parts) ==
    IF Len(parts) = 0 THEN ""
    ELSE IF Len(parts) = 1 THEN parts[1]
    ELSE parts[1] \o sep \o Join(sep, Tail(parts))

\* re.findall(r'\b\w+\b', s): the maximal runs of word characters, in order.
\* cur is the run being read.
RECURSIVE FindWords(_, _)
FindWords(s, cur) ==
    IF Len(s) = 0 THEN (IF Len(cur) = 0 THEN <<>> ELSE <<cur>>)
    ELSE IF IsWordChar(Char(s, 1))
         THEN FindWords(SubSeq(s, 2, Len(s)), cur \o Char(s, 1))
         ELSE (IF Len(cur) = 0 THEN <<>> ELSE <<cur>>)
              \o FindWords(SubSeq(s, 2, Len(s)), "")

\* the keys a metadata or filter dict may hold, in sorted order (json's sort_keys)
SortedKeys == <<"category", "company_id">>

\* json.dumps(d) of a dict of strings: the items in insertion order
JsonDumpsInsertionOrder(d) ==
    LET item(k) == "\"" \o k \o "\": \"" \o DictGet(d, k) \o "\""
    IN  "{" \o Join(", ", [i \in 1..Len(d) |-> item(d[i][1])]) \o "}"

\* json.dumps(d, sort_keys=True) of a dict of strings
JsonDumps(d) ==
    LET present == SelectSeq(SortedKeys, LAMBDA k : DictHas(d, k))
        item(k) == "\"" \o k \o "\": \"" \o DictGet(d, k) \o "\""
    IN  "{" \o Join(", ", [i \in 1..Len(present) |-> item(present[i])]) \o "}"

-----------------------------------------------------------------------------
(* The backing index (the chromadb client), seen through the calls the code
   makes on it.  A collection is a function from the ids it holds to
   [document, metadata]. *)

\* the ids in the index's own order, which breaks ties between equal distances
AllIds == <<"d1", "d2">>

IdRank(id) == CHOOSE i \in 1..Len(AllIds) : AllIds[i] = id

TextHours == "Open hours: 9AM-5PM"

TextFees == "Fees are due"

QueryHours == "your open hours"

QueryFees == "fees"

QueryDue == "fees due"

\* the distance the embedding gives a document for a query, in thousandths
Dist(query_text, document) ==
    CASE query_text = QueryHours /\ document = TextHours -> 200
      [] query_text = QueryHours /\ document = TextFees -> 900
      [] query_text = QueryFees /\ document = TextFees -> 300
      [] query_text = QueryFees /\ document = TextHours -> 1200
      [] query_text = QueryDue /\ document = TextHours -> 400
      [] query_text = QueryDue /\ document = TextFees -> 500
      [] OTHER -> 500

EmptyCollection == [id \in {} |-> 0]

\* collection.add(ids, documents, metadatas): an id the collection holds
\* keeps its entry
AddKeepsExisting(coll, ids, documents, metadatas) ==
    [id \in DOMAIN coll \cup Range(ids) |->
        IF id \in DOMAIN coll THEN coll[id]
        ELSE LET i == CHOOSE j \in 1..Len(ids) : ids[j] = id
             IN  [document |-> documents[i], metadata |-> metadatas[i]]]

\* collection.upsert(ids, documents, metadatas): insert or replace by id
Upsert(coll, ids, documents, metadatas) ==
    [id \in DOMAIN coll \cup Range(ids) |->
        IF id \in Range(ids)
        THEN LET i == CHOOSE j \in 1..Len(ids) : ids[j] = id
             IN  [document |-> documents[i], metadata |-> metadatas[i]]
        ELSE coll[id]]

\* the index rejects a batch whose lists differ in length or whose ids repeat
UpsertAccepts(ids, documents, metadatas) ==
    /\ Len(documents) = Len(ids)
    /\ Len(metadatas) = Len(ids)
    /\ Cardinality(Range(ids)) = Len(ids)

\* where is a conjunction of equalities on the metadata
Matches(metadata, where) ==
    \A i \in 1..Len(where) :
        DictHas(metadata, where[i][1]) /\ DictGet(metadata, where[i][1]) = where[i][2]

\* ids by ascending distance, the index's own order between equal distances
RECURSIVE NearestFirst(_, _, _)
NearestFirst(coll, ids, query_text) ==
    IF ids = {} THEN <<>>
    ELSE LET d(id) == Dist(query_text, coll[id].document)
             first == CHOOSE id \in ids :
                        \A o \in ids : d(id) < d(o) \/ (d(id) = d(o) /\ IdRank(id) <= IdRank(o))
         IN  <<first>> \o NearestFirst(coll, ids \ {first}, query_text)

\* collection.query(query_texts=[query_text], n_results, where).  The code reads
\* results[field][0] only; the result is modelled without that outer list.
Query(coll, query_text, n_results, where) ==
    LET hits == {id \in DOMAIN coll : Matches(coll[id].metadata, where)}
        all == NearestFirst(coll, hits, query_text)
        top == SubSeq(all, 1, Min(n_results, Len(all)))
    IN  [documents |-> [i \in 1..Len(top) |-> coll[top[i]].document],
         ids |-> top,
         distances |-> [i \in 1..Len(top) |-> Dist(query_text, coll[top[i]].document)],
         metadatas |-> [i \in 1..Len(top) |-> coll[top[i]].metadata]]

-----------------------------------------------------------------------------
(* Hybrid reranking.  Scores are exact fractions: a distance or a vector
   score counts thousandths (DistOne is 1.0), a keyword score counts
   sixtieths (KwOne is 1.0, so that dividing by up to 6 keywords is exact),
   a combined score counts 1/(10 * DistOne * KwOne); the weights 0.7 and 0.3
   count tenths. *)

DistOne == 1000

KwOne == 60

WeightVector == 7

WeightKeyword == 3

PhraseBonus == (3 * KwOne) \div 10

common_words ==
    {"the", "a", "an", "in", "on", "at", "to", "for", "with", "by", "about",
     "like", "through", "over", "before", "between", "after", "since",
     "without", "under", "within", "along", "following", "across", "behind",
     "beyond", "plus", "except", "but", "up", "out", "around", "down", "off",
     "above", "near", "and", "or", "so", "yet", "is", "are", "was", "were",
     "be", "been", "being", "have", "has", "had", "do", "does", "did", "can",
     "could", "will", "would", "shall", "should", "may", "might", "must", "of"}

extract_keywords(query) ==
    SelectSeq(FindWords(Lower(query), ""),
              LAMBDA word : word \notin common_words /\ Len(word) > 2)

\* a keyword score whose phrase bonus is not capped
calculate_keyword_score_uncapped(text, keywords) ==
    IF Len(keywords) = 0 THEN 0
    ELSE LET text_lower == Lower(text)
             matches == Cardinality({i \in 1..Len(keywords) :
                                        Contains(text_lower, keywords[i])})
             score == (matches * KwOne) \div Len(keywords)
         IN  IF Contains(text_lower, Join(" ", keywords))
             THEN score + PhraseBonus
             ELSE score

\* a keyword score that gives the bonus when the first keyword is in the text
calculate_keyword_score_first_word(text, keywords) ==
    IF Len(keywords) = 0 THEN 0
    ELSE LET text_lower == Lower(text)
             matches == Cardinality({i \in 1..Len(keywords) :
                                        Contains(text_lower, keywords[i])})
             score == (matches * KwOne) \div Len(keywords)
         IN  IF Contains(text_lower, keywords[1])
             THEN Min(score + PhraseBonus, KwOne)
             ELSE score

calculate_keyword_score(text, keywords) ==
    IF Len(keywords) = 0 THEN 0
    ELSE LET text_lower == Lower(text)
             matches == Cardinality({i \in 1..Len(keywords) :
                                        Contains(text_lower, keywords[i])})
             score == (matches * KwOne) \div Len(keywords)
         IN  IF Contains(text_lower, Join(" ", keywords))
             THEN Min(score + PhraseBonus, KwOne)
             ELSE score

\* a vector score that does not clamp the distance
vector_score_unclamped(distance) == DistOne - distance

vector_score(distance) == DistOne - Min(distance, DistOne)

combined_score(query_text, doc, distance) ==
    vector_score(distance) * WeightVector * KwOne
    + calculate_keyword_score(doc, extract_keywords(query_text)) * WeightKeyword * DistOne

\* list.sort(key=score, reverse=True) of the positions 1..Len(scores): stable,
\* so positions with equal scores stay in ascending order
\* an order that puts the later of two equal scores first
SortsBeforeUnstable(scores, i, j) ==
    scores[i] > scores[j] \/ (scores[i] = scores[j] /\ i >= j)

\* position i is not after position j in the sorted list
SortsBefore(scores, i, j) ==
    scores[i] > scores[j] \/ (scores[i] = scores[j] /\ i <= j)

RECURSIVE SortByScore(_, _)
SortByScore(scores, left) ==
    IF left = {} THEN <<>>
    ELSE LET first == CHOOSE i \in left : \A j \in left : SortsBefore(scores, i, j)
         IN  <<first>> \o SortByScore(scores, left \ {first})

\* a reranker that leaves the metadata list in the order of the index
apply_hybrid_search_metadatas_in_place(query_text, vector_results, n_results) ==
    LET docs == vector_results.documents
        scores == [i \in 1..Len(docs) |->
                     combined_score(query_text, docs[i], vector_results.distances[i])]
        hybrid_scores == SortByScore(scores, 1..Len(docs))
        top_indices == SubSeq(hybrid_scores, 1, Min(n_results, Len(hybrid_scores)))
        pick(field) == [k \in 1..Len(top_indices) |-> field[top_indices[k]]]
    IN  [documents |-> pick(vector_results.documents),
         ids |-> pick(vector_results.ids),
         distances |-> pick(vector_results.distances),
         metadatas |-> SubSeq(vector_results.metadatas, 1, Len(top_indices)),
         relevance_scores |-> pick(scores)]

apply_hybrid_search(query_text, vector_results, n_results) ==
    LET docs == vector_results.documents
        scores == [i \in 1..Len(docs) |->
                     combined_score(query_text, docs[i], vector_results.distances[i])]
        hybrid_scores == SortByScore(scores, 1..Len(docs))
        top_indices == SubSeq(hybrid_scores, 1, Min(n_results, Len(hybrid_scores)))
        pick(field) == [k \in 1..Len(top_indices) |-> field[top_indices[k]]]
    IN  [documents |-> pick(vector_results.documents),
         ids |-> pick(vector_results.ids),
         distances |-> pick(vector_results.distances),
         metadatas |-> pick(vector_results.metadatas),
         relevance_scores |-> pick(scores)]

\* the value search returns when the index query raised
EmptyResults ==
    [documents |-> <<>>, ids |-> <<>>, distances |-> <<>>, metadatas |-> <<>>,
     relevance_scores |-> <<>>]

-----------------------------------------------------------------------------
(* The search cache *)

EmptyCache == [k \in {} |-> 0]

get_cache_key(query_text, filters, n_results) ==
    LET key_parts == IF Truthy(filters)
                     THEN <<query_text, ToString(n_results), JsonDumps(Val(filters))>>
                     ELSE <<query_text, ToString(n_results)>>
    IN  Join("_", key_parts)

\* a lookup that also serves an entry whose age is exactly the ttl
IsFreshInclusive(entry, t) == t - entry.timestamp <= cache_ttl

\* time.time() - timestamp < cache_ttl
IsFresh(entry, t) == t - entry.timestamp < cache_ttl

get_from_cache(cache, cache_key, t) ==
    IF cache_key \in DOMAIN cache /\ IsFresh(cache[cache_key], t)
    THEN Some(cache[cache_key].results)
    ELSE None

\* current_time - timestamp > cache_ttl
IsSwept(entry, t) == t - entry.timestamp > cache_ttl

clean_cache(cache, t) ==
    LET expired_keys == {k \in DOMAIN cache : IsSwept(cache[k], t)}
    IN  [k \in DOMAIN cache \ expired_keys |-> cache[k]]

CacheIsTooLarge(cache) == Cardinality(DOMAIN cache) > max_entries

add_to_cache(cache, cache_key, results, t) ==
    LET stored == [k \in DOMAIN cache \cup {cache_key} |->
                     IF k = cache_key THEN [timestamp |-> t, results |-> results]
                     ELSE cache[k]]
    IN  IF CacheIsTooLarge(stored) THEN clean_cache(stored, t) ELSE stored

-----------------------------------------------------------------------------
(* BusinessVoiceAgent._detect_query_intent (agent.py).  retrieved_content is
   given by the document types of its results; the domain is the
   detected_domain of rag_response.domain_expertise, None when there is no
   rag_response or no domain expertise. *)

\* the dict intent_patterns, in the order it is written
intent_patterns ==
    << <<"booking", <<"book", "schedule", "appointment", "make", "create", "set up",
                      "arrange">> >>,
       <<"cancellation", <<"cancel", "remove", "delete", "reschedule", "change">> >>,
       <<"information", <<"what", "tell me", "information", "details", "about",
                          "explain">> >>,
       <<"procedure", <<"how", "steps", "process", "procedure", "method", "guide">> >>,
       <<"policy", <<"policy", "rule", "guideline", "allowed", "permitted", "can i">> >>,
       <<"contact", <<"contact", "phone", "email", "reach", "call", "support">> >>,
       <<"hours", <<"hours", "time", "open", "available", "schedule", "when">> >>,
       <<"cost", <<"cost", "price", "fee", "charge", "payment", "billing",
                   "how much">> >>,
       <<"technical", <<"error", "problem", "issue", "not working", "broken", "fix">> >>,
       <<"healthcare", <<"health", "medical", "doctor", "consultation", "symptoms",
                         "treatment">> >> >>

domain_intent_mapping ==
    << <<"healthcare", "healthcare">>, <<"legal", "policy">>,
       <<"technical_support", "technical">>, <<"billing", "cost">>,
       <<"appointment", "booking">>, <<"general", "information">> >>

domain_fallback_mapping ==
    << <<"healthcare", "healthcare">>, <<"legal", "policy">>,
       <<"technical_support", "technical">>, <<"billing", "cost">>,
       <<"appointment", "booking">> >>

\* any(keyword in query_lower for keyword in keywords)
AnyKeywordIn(query_lower, keywords) ==
    \E i \in 1..Len(keywords) : Contains(query_lower, keywords[i])

detect_query_intent(query, doc_types, domain) ==
    LET query_lower == Lower(query)
        suggested == IF ~IsNone(domain) /\ DictHas(domain_intent_mapping, Val(domain))
                     THEN Some(DictGet(domain_intent_mapping, Val(domain)))
                     ELSE None
        matching == {i \in 1..Len(intent_patterns) :
                        AnyKeywordIn(query_lower, intent_patterns[i][2])}
    IN  IF ~IsNone(suggested)
           /\ AnyKeywordIn(query_lower, DictGet(intent_patterns, Val(suggested)))
        THEN Val(suggested)
        ELSE IF matching # {}
        THEN intent_patterns[CHOOSE i \in matching : \A j \in matching : i <= j][1]
        ELSE IF "procedure" \in Range(doc_types) THEN "procedure"
        ELSE IF "policy" \in Range(doc_types) THEN "policy"
        ELSE IF "faq" \in Range(doc_types) THEN "information"
        ELSE IF ~IsNone(domain) /\ DictHas(domain_fallback_mapping, Val(domain))
        THEN DictGet(domain_fallback_mapping, Val(domain))
        ELSE "general"

-----------------------------------------------------------------------------
(* BusinessVoiceAgent._generate_rag_enhanced_response and the helpers it
   calls (agent.py).  A conversation context is [turns, current_topic,
   relevant_documents]: the number of turns, an Optional topic, the number of
   documents.  The retrieved content is given by its document types. *)

follow_up_patterns ==
    <<"what about", "how about", "and", "also", "additionally", "can you",
      "could you", "please tell me", "more", "other", "it", "that", "this",
      "they", "them">>

is_follow_up_question(query) == AnyKeywordIn(Lower(query), follow_up_patterns)

topic_doc_mapping ==
    << <<"appointment_booking", <<"procedure">> >>,
       <<"appointment_management", <<"procedure", "policy">> >>,
       <<"general_information", <<"faq">> >>,
       <<"technical_support", <<"manual", "procedure">> >>,
       <<"healthcare_guidance", <<"procedure", "faq">> >>,
       <<"billing_policy", <<"policy">> >> >>

is_topic_transition(current_topic, new_doc_types) ==
    IF ~Truthy(current_topic) \/ Len(new_doc_types) = 0 THEN FALSE
    ELSE LET expected_doc_types ==
                 IF DictHas(topic_doc_mapping, Val(current_topic))
                 THEN DictGet(topic_doc_mapping, Val(current_topic))
                 ELSE <<>>
         IN  ~\E i \in 1..Len(new_doc_types) :
                 new_doc_types[i] \in Range(expected_doc_types)

coherence_prefixes ==
    << <<"appointment_booking", "Regarding your appointment booking,">>,
       <<"appointment_management", "For your appointment,">>,
       <<"general_information", "To add to that information,">>,
       <<"technical_support", "Continuing with the technical issue,">>,
       <<"healthcare_guidance", "For your healthcare question,">>,
       <<"billing_policy", "Regarding the billing policy,">> >>

get_coherence_prefix(topic) ==
    IF DictHas(coherence_prefixes, topic) THEN Some(DictGet(coherence_prefixes, topic))
    ELSE None

\* a coherence step that answers a follow-up with the prefix alone
coherence_prefix_only(rag_answer, user_query, conversation_context, doc_types) ==
    IF IsNone(conversation_context) \/ Val(conversation_context).turns = 0
    THEN rag_answer
    ELSE Val(get_coherence_prefix("appointment_booking"))

ensure_conversation_coherence(rag_answer, user_query, conversation_context, doc_types) ==
    IF IsNone(conversation_context) \/ Val(conversation_context).turns = 0
    THEN rag_answer
    ELSE LET recent_topic == Val(conversation_context).current_topic
             coherence_prefix == IF Truthy(recent_topic)
                                 THEN get_coherence_prefix(Val(recent_topic))
                                 ELSE None
         IN  IF is_follow_up_question(user_query) /\ Truthy(coherence_prefix)
             THEN Val(coherence_prefix) \o " " \o rag_answer
             ELSE IF Truthy(recent_topic) /\ is_topic_transition(recent_topic, doc_types)
             THEN "Let me help you with that. " \o rag_answer
             ELSE rag_answer

\* the dict topic_mapping of _determine_topic_from_documents, keyed by
\* (document type, intent)
topic_mapping ==
    << << <<"procedure", "booking">>, "appointment_booking">>,
       << <<"procedure", "cancellation">>, "appointment_management">>,
       << <<"policy", "cancellation">>, "cancellation_policy">>,
       << <<"faq", "information">>, "general_information">>,
       << <<"manual", "technical">>, "technical_support">>,
       << <<"procedure", "healthcare">>, "healthcare_guidance">>,
       << <<"policy", "cost">>, "billing_policy">> >>

determine_topic_from_documents(document_types, intent) ==
    LET hits == {i \in 1..Len(document_types) :
                    DictHas(topic_mapping, <<document_types[i], intent>>)}
    IN  IF Len(document_types) = 0 THEN None
        ELSE IF hits # {}
        THEN Some(DictGet(topic_mapping,
                          <<document_types[CHOOSE i \in hits : \A j \in hits : i <= j],
                            intent>>))
        ELSE IF "procedure" \in Range(document_types) THEN Some("procedure_guidance")
        ELSE IF "policy" \in Range(document_types) THEN Some("policy_information")
        ELSE IF "faq" \in Range(document_types) THEN Some("general_support")
        ELSE None

\* the session id the call works with
effective_session_id(session_id, current_session_id) ==
    IF Truthy(session_id) THEN Val(session_id)
    ELSE IF Truthy(current_session_id) THEN Val(current_session_id)
    ELSE "default_session"

\* what the call returns and the search_and_generate calls it makes.
\* rag is the state of self.rag_engine and the way its call ends; manager is
\* the state of self.context_manager and which of its calls raises.
generate_rag_enhanced_response(w) ==
    LET sid == effective_session_id(w.session_id, w.current_session_id)
        got_context == w.manager \in {"summary_fails", "turn_fails", "works"}
        conversation_context == IF got_context THEN Some(w.context) ELSE None
        context_summary == IF w.manager \in {"turn_fails", "works"} THEN "summary" ELSE ""
        rag_call == [query |-> w.user_query, context |-> context_summary,
                     session_id |-> sid]
        detected_intent == detect_query_intent(w.user_query, w.doc_types, None)
        \* the turn handed to context_manager.add_conversation_turn and, when
        \* that call returns, the topic handed to update_context_data
        turn == [session_id |-> sid, user_message |-> w.user_query,
                 agent_response |-> w.answer, intent |-> detected_intent,
                 current_topic |->
                    IF w.manager = "turn_fails" THEN None
                    ELSE determine_topic_from_documents(w.doc_types, detected_intent)]
    IN  IF w.rag = "none" THEN [rag_calls |-> <<>>, turn |-> None, result |-> None]
        ELSE IF w.rag \in {"raise", "no_response", "empty_answer"}
        THEN [rag_calls |-> <<rag_call>>, turn |-> None, result |-> None]
        ELSE [rag_calls |-> <<rag_call>>,
              turn |-> IF w.manager = "absent" THEN None ELSE Some(turn),
              result |-> Some(ensure_conversation_coherence(
                                  w.answer, w.user_query, conversation_context,
                                  w.doc_types))]

-----------------------------------------------------------------------------
(* BusinessVoiceAgent.__init__ (agent.py).  d tells how each dependency
   behaves: whether config is loaded, and whether the constructors of the
   speech-to-text, the LLM, the text-to-speech, the knowledge base, the RAG
   engine, the learning engine and the Agent base class return or raise. *)

\* self.knowledge_base and self.rag_engine after _initialize_rag_components,
\* with the constructor calls it made
initialize_rag_components(d) ==
    IF d.knowledge_base = "raise"
    THEN [knowledge_base |-> None, rag_engine |-> None,
          knowledge_base_calls |-> 1, rag_engine_calls |-> <<>>]
    ELSE IF d.rag_engine = "raise"
    THEN [knowledge_base |-> None, rag_engine |-> None,
          knowledge_base_calls |-> 1, rag_engine_calls |-> <<"kb">>]
    ELSE [knowledge_base |-> Some("kb"), rag_engine |-> Some([knowledge_base |-> "kb"]),
          knowledge_base_calls |-> 1, rag_engine_calls |-> <<"kb">>]

NoRagCalls == [knowledge_base_calls |-> 0, rag_engine_calls |-> <<>>]

\* the agent object the constructor leaves, if any
agent_init(d) ==
    IF ~d.config THEN [raised |-> "ValueError", agent |-> None] @@ NoRagCalls
    ELSE IF d.stt = "raise" \/ d.llm = "raise" \/ d.tts = "raise"
    THEN [raised |-> "Exception", agent |-> None] @@ NoRagCalls
    ELSE LET rag == initialize_rag_components(d)
             calls == [knowledge_base_calls |-> rag.knowledge_base_calls,
                       rag_engine_calls |-> rag.rag_engine_calls]
         IN  IF d.learning_engine = "raise" \/ d.base = "raise"
             THEN [raised |-> "Exception", agent |-> None] @@ calls
             ELSE [raised |-> "none",
                   agent |-> Some([knowledge_base |-> rag.knowledge_base,
                                   rag_engine |-> rag.rag_engine,
                                   context_manager |-> None,
                                   learning_engine |-> Some("learning_engine"),
                                   current_session_id |-> None])] @@ calls

-----------------------------------------------------------------------------
(* Inputs *)

Tenants == {"a", "a_b"}

Categories == {"c", "b_c"}

\* f"{company_id}_{collection_type}": the registry key and the collection's name
collection_name(company_id, collection_type) == company_id \o "_" \o collection_type

Names == {collection_name(t, c) : t \in Tenants, c \in Categories}

\* the metadata a caller gives with one document: none, or a dict that names
\* a tenant
MetadataChoices ==
    {None, Some(<<<<"company_id", "a">>, <<"category", "p">>>>)}

\* the batches a caller adds: one or two documents, with no metadata list, an
\* empty one, one as long as the batch, or one shorter
Batches ==
    {b \in [ids : {<<"d1">>, <<"d1", "d2">>},
            documents : {<<TextHours>>, <<TextHours, TextFees>>},
            metadatas : {None, Some(<<>>)}
                        \cup {Some(<<m>>) : m \in MetadataChoices}
                        \cup {Some(<<m, n>>) : m, n \in MetadataChoices}] :
        /\ Len(b.documents) = Len(b.ids)
        /\ (Truthy(b.metadatas) => Len(Val(b.metadatas)) <= Len(b.ids))}

\* the index answers a call, or the call raises
Outcomes == {"ok", "raise"}

-----------------------------------------------------------------------------
(* State *)

Threads == 1..NThreads

Handles == {company_collections[k] : k \in DOMAIN company_collections}

Init ==
    /\ company_collections = [k \in {} |-> 0]
    /\ provision_calls = [n \in Names |-> 0]
    /\ index = [n \in {} |-> 0]
    /\ search_cache = EmptyCache
    /\ now = 0
    /\ ticks = 0
    /\ ret = [op |-> "none", seq |-> 0]
    /\ pc = [th \in Threads |-> "idle"]
    /\ frame = [th \in Threads |-> [op |-> "none"]]
    /\ session = None

\* the sequential caller is between calls
AtRest == \A th \in Threads : pc[th] = "idle"

-----------------------------------------------------------------------------
(* CloudVectorStore.__init__.  The call's arguments and the environment are
   Optional strings; the last call is in ret, with the number of
   chromadb.CloudClient calls it made and the store object it left, if any. *)

\* a setting that falls back to a fixed value
resolve_with_default(argument, environment) ==
    IF Truthy(argument) THEN argument
    ELSE IF Truthy(environment) THEN environment ELSE Some("default")

\* argument or os.environ.get(NAME)
resolve(argument, environment) == IF Truthy(argument) THEN argument ELSE environment

\* the attributes of a store whose constructor ran to its end
NewStore(api_key, tenant, database) ==
    [api_key |-> api_key, tenant |-> tenant, database |-> database,
     company_collections |-> [k \in {} |-> 0], search_cache |-> EmptyCache,
     cache_ttl |-> cache_ttl]

construct(outcome) ==
    LET api_key == resolve(ret.api_key, ret.CHROMADB_API_KEY)
        tenant == resolve(ret.tenant, ret.CHROMADB_TENANT)
        database == resolve(ret.database, ret.CHROMADB_DATABASE)
        call == [op |-> "__init__", seq |-> 1,
                 api_key |-> ret.api_key, tenant |-> ret.tenant,
                 database |-> ret.database,
                 CHROMADB_API_KEY |-> ret.CHROMADB_API_KEY,
                 CHROMADB_TENANT |-> ret.CHROMADB_TENANT,
                 CHROMADB_DATABASE |-> ret.CHROMADB_DATABASE]
    IN  /\ ret.op = "arguments"
        /\ ret' = call @@
              (IF ~Truthy(api_key) \/ ~Truthy(tenant) \/ ~Truthy(database)
               THEN [raised |-> "ValueError", client_calls |-> 0, store |-> None]
               ELSE IF outcome = "raise"
               THEN [raised |-> "Exception", client_calls |-> 1, store |-> None]
               ELSE [raised |-> "none", client_calls |-> 1,
                     store |-> Some(NewStore(Val(api_key), Val(tenant), Val(database)))])
        /\ UNCHANGED <<company_collections, provision_calls, index, search_cache, now,
                       ticks, pc, frame, session>>

-----------------------------------------------------------------------------
(* CloudVectorStore.get_collection and the CloudSecureCollection constructor *)

\* a CloudSecureCollection object; serial tells apart the objects that were
\* constructed for one name
NewHandle(company_id, collection_type, serial) ==
    [company_id |-> company_id,
     collection_type |-> collection_type,
     collection |-> collection_name(company_id, collection_type),
     serial |-> serial]

\* client.get_or_create_collection(name): the index afterwards
get_or_create_collection(idx, name) ==
    IF name \in DOMAIN idx THEN idx
    ELSE [n \in DOMAIN idx \cup {name} |-> IF n = name THEN EmptyCollection ELSE idx[n]]

\* company_collections[collection_key] = handle
Register(registry, collection_key, handle) ==
    [k \in DOMAIN registry \cup {collection_key} |->
        IF k = collection_key THEN handle ELSE registry[k]]

\* a membership test that finds nothing
IsRegisteredNever(registry, collection_key) == FALSE

\* collection_key in self.company_collections
IsRegistered(registry, collection_key) == collection_key \in DOMAIN registry

\* a get_collection that registers the handle before the handle has
\* provisioned its collection
get_collection_registers_first(company_id, collection_type, outcome) ==
    LET collection_key == collection_name(company_id, collection_type)
        call == [op |-> "get_collection", seq |-> 1 - ret.seq,
                 company_id |-> company_id, collection_type |-> collection_type]
    IN  /\ AtRest
        /\ IF ~IsRegistered(company_collections, collection_key)
           THEN /\ provision_calls[collection_key] < MaxProvision
                /\ provision_calls' = [provision_calls EXCEPT ![collection_key] = @ + 1]
                /\ LET handle == NewHandle(company_id, collection_type,
                                           provision_calls'[collection_key])
                   IN  /\ company_collections' =
                              Register(company_collections, collection_key, handle)
                       /\ IF outcome = "ok"
                          THEN /\ index' = get_or_create_collection(index, handle.collection)
                               /\ ret' = call @@ [raised |-> FALSE, handle |-> handle]
                          ELSE /\ ret' = call @@ [raised |-> TRUE]
                               /\ UNCHANGED index
           ELSE /\ outcome = "ok"
                /\ ret' = call @@ [raised |-> FALSE,
                                   handle |-> company_collections[collection_key]]
                /\ UNCHANGED <<index, company_collections, provision_calls>>
        /\ UNCHANGED <<search_cache, now, ticks, pc, frame, session>>

get_collection(company_id, collection_type, outcome) ==
    LET collection_key == collection_name(company_id, collection_type)
        call == [op |-> "get_collection", seq |-> 1 - ret.seq,
                 company_id |-> company_id, collection_type |-> collection_type]
    IN  /\ AtRest
        /\ IF ~IsRegistered(company_collections, collection_key)
           THEN /\ provision_calls[collection_key] < MaxProvision
                /\ provision_calls' = [provision_calls EXCEPT ![collection_key] = @ + 1]
                /\ IF outcome = "ok"
                   THEN LET handle == NewHandle(company_id, collection_type,
                                                provision_calls'[collection_key])
                        IN  /\ index' = get_or_create_collection(index, handle.collection)
                            /\ company_collections' =
                                   Register(company_collections, collection_key, handle)
                            /\ ret' = call @@ [raised |-> FALSE, handle |-> handle]
                   ELSE \* the constructor raises; nothing is registered
                        /\ ret' = call @@ [raised |-> TRUE]
                        /\ UNCHANGED <<index, company_collections>>
           ELSE /\ outcome = "ok"
                /\ ret' = call @@ [raised |-> FALSE,
                                   handle |-> company_collections[collection_key]]
                /\ UNCHANGED <<index, company_collections, provision_calls>>
        /\ UNCHANGED <<search_cache, now, ticks, pc, frame, session>>

-----------------------------------------------------------------------------
(* CloudVectorStore.list_company_collections *)

\* the names the call returns, as a set: the list is in the order of
\* client.list_collections(), which the code neither fixes nor uses
company_collection_names(idx, company_id) ==
    {name \in DOMAIN idx : StartsWith(name, company_id \o "_")}

list_company_collections(company_id, outcome) ==
    /\ AtRest
    /\ ret' = [op |-> "list_company_collections", seq |-> 1 - ret.seq,
               company_id |-> company_id, raised |-> FALSE,
               answer |-> outcome,
               result |-> IF outcome = "ok"
                          THEN company_collection_names(index, company_id)
                          ELSE {}]
    /\ UNCHANGED <<company_collections, provision_calls, index, search_cache, now,
                   ticks, pc, frame, session>>

-----------------------------------------------------------------------------
(* CloudSecureCollection.add_documents *)

\* the metadata list handed to upsert
stamp_metadatas(company_id, documents, metadatas) ==
    IF Truthy(metadatas)
    THEN LET given == Val(metadatas)
         IN  [i \in 1..Len(given) |->
                IF IsNone(given[i]) THEN <<<<"company_id", company_id>>>>
                ELSE DictSet(Val(given[i]), "company_id", company_id)]
    ELSE [i \in 1..Len(documents) |-> <<<<"company_id", company_id>>>>]

\* an add_documents that sends the documents one by one and stops at the
\* first failure
add_documents_one_by_one(h, ids, documents, metadatas, outcome) ==
    LET stamped == stamp_metadatas(h.company_id, documents, metadatas)
        upsert == [ids |-> ids, documents |-> documents, metadatas |-> stamped]
        done == outcome = "ok" /\ UpsertAccepts(ids, documents, stamped)
    IN  /\ AtRest
        /\ index' = IF done
                    THEN [index EXCEPT ![h.collection] = Upsert(@, ids, documents, stamped)]
                    ELSE [index EXCEPT ![h.collection] =
                             Upsert(@, <<ids[1]>>, <<documents[1]>>,
                                    <<<<<<"company_id", h.company_id>>>>>>)]
        /\ ret' = [op |-> "add_documents", seq |-> 1 - ret.seq, handle |-> h,
                   ids |-> ids, documents |-> documents,
                   upsert |-> upsert, raised |-> FALSE, result |-> done]
        /\ UNCHANGED <<company_collections, provision_calls, search_cache, now, ticks,
                       pc, frame, session>>

\* an add_documents that drops the cached results when the batch is in
add_documents_clears_cache(h, ids, documents, metadatas, outcome) ==
    LET stamped == stamp_metadatas(h.company_id, documents, metadatas)
        upsert == [ids |-> ids, documents |-> documents, metadatas |-> stamped]
        done == outcome = "ok" /\ UpsertAccepts(ids, documents, stamped)
    IN  /\ AtRest
        /\ index' = IF done
                    THEN [index EXCEPT ![h.collection] = Upsert(@, ids, documents, stamped)]
                    ELSE index
        /\ search_cache' = IF done THEN EmptyCache ELSE search_cache
        /\ ret' = [op |-> "add_documents", seq |-> 1 - ret.seq, handle |-> h,
                   ids |-> ids, documents |-> documents,
                   upsert |-> upsert, raised |-> FALSE, result |-> done]
        /\ UNCHANGED <<company_collections, provision_calls, now, ticks,
                       pc, frame, session>>

add_documents(h, ids, documents, metadatas, outcome) ==
    LET stamped == stamp_metadatas(h.company_id, documents, metadatas)
        upsert == [ids |-> ids, documents |-> documents, metadatas |-> stamped]
        done == outcome = "ok" /\ UpsertAccepts(ids, documents, stamped)
    IN  /\ AtRest
        /\ index' = IF done
                    THEN [index EXCEPT ![h.collection] = Upsert(@, ids, documents, stamped)]
                    ELSE index
        /\ ret' = [op |-> "add_documents", seq |-> 1 - ret.seq, handle |-> h,
                   ids |-> ids, documents |-> documents,
                   upsert |-> upsert, raised |-> FALSE, result |-> done]
        /\ UNCHANGED <<company_collections, provision_calls, search_cache, now, ticks,
                       pc, frame, session>>

-----------------------------------------------------------------------------
(* CloudSecureCollection.search *)

\* the where clause handed to the index query
build_where(company_id, filters) ==
    LET where_clause == <<<<"company_id", company_id>>>>
    IN  IF Truthy(filters) THEN DictUpdate(where_clause, Val(filters)) ELSE where_clause

\* a search that asks for n_results candidates whether or not it reranks
asked_results_same(n_results, use_hybrid) == n_results

\* the number of candidates asked of the index
asked_results(n_results, use_hybrid) == IF use_hybrid THEN n_results * 2 ELSE n_results

\* an except clause that lets the error through
search_on_error_reraises == [raised |-> TRUE, result |-> EmptyResults]

\* what search hands back when the index query raised
search_on_error == [raised |-> FALSE, result |-> EmptyResults]

\* the cache lookup that opens search
search_lookup(cache, query_text, filters, n_results, t) ==
    get_from_cache(cache, get_cache_key(query_text, filters, n_results), t)

\* search after a cache miss with an index that answered
search_results(coll, company_id, query_text, n_results, filters, use_hybrid) ==
    LET raw == Query(coll, query_text, asked_results(n_results, use_hybrid),
                     build_where(company_id, filters))
    IN  IF use_hybrid /\ Len(raw.documents) > 0
        THEN apply_hybrid_search(query_text, raw, n_results)
        ELSE raw

\* a search that stores what it returns, the empty result of a failed index
\* query too
search_caches_error(h, query_text, n_results, filters, use_hybrid, outcome) ==
    LET cache_key == get_cache_key(query_text, filters, n_results)
        cached_results == search_lookup(search_cache, query_text, filters, n_results, now)
        call == [op |-> "search", seq |-> 1 - ret.seq, handle |-> h,
                 query_text |-> query_text, n_results |-> n_results,
                 filters |-> filters, use_hybrid |-> use_hybrid]
        query == [n_results |-> asked_results(n_results, use_hybrid),
                  where |-> build_where(h.company_id, filters),
                  answer |-> outcome]
    IN  /\ AtRest
        /\ IF ~IsNone(cached_results)
           THEN /\ outcome = "ok"
                /\ ret' = call @@ [queried |-> None, raised |-> FALSE,
                                   result |-> Val(cached_results)]
                /\ UNCHANGED search_cache
           ELSE IF outcome = "ok"
           THEN LET results == search_results(index[h.collection], h.company_id,
                                              query_text, n_results, filters, use_hybrid)
                IN  /\ search_cache' = add_to_cache(search_cache, cache_key, results, now)
                    /\ ret' = call @@ [queried |-> Some(query), raised |-> FALSE,
                                       result |-> results]
           ELSE /\ ret' = call @@ [queried |-> Some(query)] @@ search_on_error
                /\ search_cache' = add_to_cache(search_cache, cache_key,
                                                search_on_error.result, now)
        /\ UNCHANGED <<company_collections, provision_calls, index, now, ticks, pc,
                       frame, session>>

search(h, query_text, n_results, filters, use_hybrid, outcome) ==
    LET cache_key == get_cache_key(query_text, filters, n_results)
        cached_results == search_lookup(search_cache, query_text, filters, n_results, now)
        call == [op |-> "search", seq |-> 1 - ret.seq, handle |-> h,
                 query_text |-> query_text, n_results |-> n_results,
                 filters |-> filters, use_hybrid |-> use_hybrid]
        query == [n_results |-> asked_results(n_results, use_hybrid),
                  where |-> build_where(h.company_id, filters),
                  answer |-> outcome]
    IN  /\ AtRest
        /\ IF ~IsNone(cached_results)
           THEN /\ outcome = "ok"
                /\ ret' = call @@ [queried |-> None, raised |-> FALSE,
                                   result |-> Val(cached_results)]
                /\ UNCHANGED search_cache
           ELSE IF outcome = "ok"
           THEN LET results == search_results(index[h.collection], h.company_id,
                                              query_text, n_results, filters, use_hybrid)
                IN  /\ search_cache' = add_to_cache(search_cache, cache_key, results, now)
                    /\ ret' = call @@ [queried |-> Some(query), raised |-> FALSE,
                                       result |-> results]
           ELSE /\ ret' = call @@ [queried |-> Some(query)] @@ search_on_error
                /\ UNCHANGED search_cache
        /\ UNCHANGED <<company_collections, provision_calls, index, now, ticks, pc,
                       frame, session>>

-----------------------------------------------------------------------------
(* Time *)

\* the clock advances by one second, or by one second less than the ttl
TimeSteps == {1, cache_ttl - 1}

Tick(d) ==
    /\ ticks < MaxTicks
    /\ now' = now + d
    /\ ticks' = ticks + 1
    /\ UNCHANGED <<company_collections, provision_calls, index, search_cache, ret,
                   pc, frame, session>>

-----------------------------------------------------------------------------
(* The registry: every tenant and category, provisioning that may fail *)

NextRegistry ==
    \E t \in Tenants, c \in Categories, o \in Outcomes : get_collection(t, c, o)

SpecRegistry == Init /\ [][NextRegistry]_vars

-----------------------------------------------------------------------------
(* Two tenants add batches of every shape *)

NextAdd ==
    \/ \E t \in Tenants : get_collection(t, "c", "ok")
    \/ \E h \in Handles, b \in Batches, o \in Outcomes :
          add_documents(h, b.ids, b.documents, b.metadatas, o)

SpecAdd == Init /\ [][NextAdd]_vars

-----------------------------------------------------------------------------
(* Two tenants add to and search one store that keeps its cache entries fresh *)

\* one document, with no metadata or with metadata that names the other tenant
IsoBatches ==
    {[ids |-> <<"d1">>, documents |-> <<TextHours>>, metadatas |-> m] :
        m \in {None, Some(<<Some(<<<<"company_id", "a">>>>)>>)}}

\* no filters, or a filter that names the other tenant
IsoFilters == {None, Some(<<<<"company_id", "a">>>>)}

NextIso ==
    \/ \E t \in Tenants : get_collection(t, "c", "ok")
    \/ \E h \in Handles, b \in IsoBatches, o \in Outcomes :
          add_documents(h, b.ids, b.documents, b.metadatas, o)
    \/ \E h \in Handles, f \in IsoFilters, hyb \in BOOLEAN, o \in Outcomes :
          search(h, QueryHours, 1, f, hyb, o)

Spec == Init /\ [][NextIso]_vars

-----------------------------------------------------------------------------
(* A store whose cache is one entry short of its limit: tenant a has searched
   its empty collection for max_entries - 1 different texts at time 0 *)

FillerQuery(i) == "q" \o ToString(i)

\* the cache after the first n of these searches (n < max_entries: no sweep)
FilledCache(n) ==
    LET key(i) == get_cache_key(FillerQuery(i), None, 1)
        query_of(k) == FillerQuery(CHOOSE i \in 1..n : key(i) = k)
    IN  [k \in {key(i) : i \in 1..n} |->
            [timestamp |-> 0,
             results |-> search_results(EmptyCollection, "a", query_of(k), 1, None, FALSE)]]

InitSweep ==
    LET h == NewHandle("a", "c", 1)
        last == FillerQuery(max_entries - 1)
    IN  /\ company_collections = Register([k \in {} |-> 0], h.collection, h)
        /\ provision_calls = [n \in Names |-> IF n = h.collection THEN 1 ELSE 0]
        /\ index = get_or_create_collection([n \in {} |-> 0], h.collection)
        /\ search_cache = FilledCache(max_entries - 1)
        /\ now = 0
        /\ ticks = 0
        /\ ret = [op |-> "search", seq |-> 0, handle |-> h, query_text |-> last,
                  n_results |-> 1, filters |-> None, use_hybrid |-> FALSE,
                  queried |-> Some([n_results |-> 1, where |-> build_where("a", None),
                                    answer |-> "ok"]),
                  raised |-> FALSE,
                  result |-> search_results(EmptyCollection, "a", last, 1, None, FALSE)]
        /\ pc = [th \in Threads |-> "idle"]
        /\ frame = [th \in Threads |-> [op |-> "none"]]
        /\ session = None

SweepQueries == {FillerQuery(1), QueryHours, QueryFees}

NextSweep ==
    \/ \E h \in Handles : add_documents(h, <<"d1">>, <<TextHours>>, None, "ok")
    \/ \E h \in Handles, q \in SweepQueries, hyb \in BOOLEAN, o \in Outcomes :
          search(h, q, 1, None, hyb, o)
    \/ \E d \in TimeSteps : Tick(d)

SpecSweep == InitSweep /\ [][NextSweep]_vars

-----------------------------------------------------------------------------
(* get_collection called from several threads.  A thread can be preempted
   between the membership test, the constructor (which calls the index), the
   store into the registry and the final lookup. *)

gc_call(th, company_id, collection_type) ==
    /\ pc[th] = "idle"
    /\ pc' = [pc EXCEPT ![th] = "gc_check"]
    /\ frame' = [frame EXCEPT ![th] = [op |-> "get_collection",
                                       company_id |-> company_id,
                                       collection_type |-> collection_type]]
    /\ UNCHANGED <<company_collections, provision_calls, index, search_cache,
                   now, ticks, ret, session>>

\* if collection_key not in self.company_collections
gc_check(th) ==
    LET collection_key == collection_name(frame[th].company_id, frame[th].collection_type)
    IN  /\ pc[th] = "gc_check"
        /\ pc' = [pc EXCEPT ![th] = IF ~IsRegistered(company_collections, collection_key)
                                    THEN "gc_construct" ELSE "gc_return"]
        /\ UNCHANGED <<company_collections, provision_calls, index, search_cache,
                       now, ticks, ret, frame, session>>

\* CloudSecureCollection(self.client, company_id, collection_type, self)
gc_construct(th, outcome) ==
    LET collection_key == collection_name(frame[th].company_id, frame[th].collection_type)
    IN  /\ pc[th] = "gc_construct"
        /\ provision_calls[collection_key] < MaxProvision
        /\ provision_calls' = [provision_calls EXCEPT ![collection_key] = @ + 1]
        /\ IF outcome = "ok"
           THEN LET handle == NewHandle(frame[th].company_id, frame[th].collection_type,
                                        provision_calls'[collection_key])
                IN  /\ index' = get_or_create_collection(index, handle.collection)
                    /\ frame' = [frame EXCEPT ![th] = @ @@ [handle |-> handle]]
                    /\ pc' = [pc EXCEPT ![th] = "gc_store"]
           ELSE \* the constructor raises out of get_collection
                /\ frame' = [frame EXCEPT ![th] = @ @@ [raised |-> TRUE]]
                /\ pc' = [pc EXCEPT ![th] = "idle"]
                /\ UNCHANGED index
        /\ UNCHANGED <<company_collections, search_cache, now, ticks, ret, session>>

\* self.company_collections[collection_key] = ...
gc_store(th) ==
    LET collection_key == collection_name(frame[th].company_id, frame[th].collection_type)
    IN  /\ pc[th] = "gc_store"
        /\ company_collections' =
               Register(company_collections, collection_key, frame[th].handle)
        /\ pc' = [pc EXCEPT ![th] = "gc_return"]
        /\ UNCHANGED <<provision_calls, index, search_cache, now, ticks, ret, frame, session>>

\* return self.company_collections[collection_key]
gc_return(th) ==
    LET collection_key == collection_name(frame[th].company_id, frame[th].collection_type)
    IN  /\ pc[th] = "gc_return"
        /\ frame' = [frame EXCEPT ![th] =
                        [op |-> "get_collection",
                         company_id |-> frame[th].company_id,
                         collection_type |-> frame[th].collection_type,
                         raised |-> FALSE,
                         result |-> company_collections[collection_key]]]
        /\ pc' = [pc EXCEPT ![th] = "idle"]
        /\ UNCHANGED <<company_collections, provision_calls, index, search_cache,
                       now, ticks, ret, session>>

\* the pairs the threads ask for
ConcPairs == {<<"a", "c">>, <<"a_b", "c">>}

NextConc ==
    \E th \in Threads :
        \/ \E p \in ConcPairs : gc_call(th, p[1], p[2])
        \/ gc_check(th)
        \/ gc_construct(th, "ok")
        \/ gc_store(th)
        \/ gc_return(th)

SpecConc == Init /\ [][NextConc]_vars

-----------------------------------------------------------------------------
(* search seen from the thread that calls it: the call up to the index query,
   then the rest of the call once the index has answered.  The index answers
   with a result, raises, or never answers; the code passes no timeout to
   collection.query and sets none of its own. *)

Answers == {"ok", "raise", "never"}

search_call(th, h, query_text, n_results, filters, use_hybrid, answer) ==
    LET cached_results == search_lookup(search_cache, query_text, filters, n_results, now)
        call == [op |-> "search", handle |-> h, query_text |-> query_text,
                 n_results |-> n_results, filters |-> filters, use_hybrid |-> use_hybrid]
    IN  /\ pc[th] = "idle"
        /\ IF ~IsNone(cached_results)
           THEN /\ answer = "ok"
                /\ frame' = [frame EXCEPT ![th] =
                                call @@ [queried |-> None, raised |-> FALSE,
                                         result |-> Val(cached_results)]]
                /\ UNCHANGED pc
           ELSE /\ frame' = [frame EXCEPT ![th] = call @@ [answer |-> answer]]
                /\ pc' = [pc EXCEPT ![th] = "querying"]
        /\ UNCHANGED <<company_collections, provision_calls, index, search_cache,
                       now, ticks, ret, session>>

search_return(th) ==
    LET f == frame[th]
        call == [op |-> "search", handle |-> f.handle, query_text |-> f.query_text,
                 n_results |-> f.n_results, filters |-> f.filters,
                 use_hybrid |-> f.use_hybrid]
        query == [n_results |-> asked_results(f.n_results, f.use_hybrid),
                  where |-> build_where(f.handle.company_id, f.filters),
                  answer |-> f.answer]
    IN  /\ pc[th] = "querying"
        /\ f.answer # "never"
        /\ IF f.answer = "ok"
           THEN LET results == search_results(index[f.handle.collection],
                                              f.handle.company_id, f.query_text,
                                              f.n_results, f.filters, f.use_hybrid)
                IN  /\ search_cache' =
                           add_to_cache(search_cache,
                                        get_cache_key(f.query_text, f.filters, f.n_results),
                                        results, now)
                    /\ frame' = [frame EXCEPT ![th] =
                                    call @@ [queried |-> Some(query), raised |-> FALSE,
                                             result |-> results]]
           ELSE /\ frame' = [frame EXCEPT ![th] =
                                call @@ [queried |-> Some(query)] @@ search_on_error]
                /\ UNCHANGED search_cache
        /\ pc' = [pc EXCEPT ![th] = "idle"]
        /\ UNCHANGED <<company_collections, provision_calls, index, now, ticks, ret, session>>

NextWait ==
    \/ get_collection("a", "c", "ok")
    \/ \E h \in Handles : add_documents(h, <<"d1">>, <<TextHours>>, None, "ok")
    \/ \E th \in Threads, h \in Handles, a \in Answers :
          search_call(th, h, QueryHours, 1, None, FALSE, a)
    \/ \E th \in Threads : search_return(th)
    \/ Tick(cache_ttl - 1)

\* a thread whose index query has been answered goes on to finish its call
SpecWait ==
    Init /\ [][NextWait]_vars /\ \A th \in Threads : WF_vars(search_return(th))

-----------------------------------------------------------------------------
(* The cache part of search, statement by statement, for threads that search
   one store at the same time.  No statement of the code takes a lock. *)

\* the arguments of the search call a thread is in
CallOf(f) ==
    [op |-> "search", handle |-> f.handle, query_text |-> f.query_text,
     n_results |-> f.n_results, filters |-> f.filters, use_hybrid |-> f.use_hybrid]

\* what the thread's call hands back: its result, or the empty result of the
\* except clause when a statement inside the try block raised error
Returned(f, error) ==
    CallOf(f) @@ [error |-> error]
              @@ (IF error = "none" THEN [raised |-> FALSE, result |-> f.results]
                  ELSE search_on_error)

\* results = self.collection.query(...) has answered; hybrid reranking
search_answered(th) ==
    LET f == frame[th]
    IN  /\ pc[th] = "querying"
        /\ f.answer # "never"
        /\ IF f.answer = "ok"
           THEN /\ frame' = [frame EXCEPT ![th] =
                    CallOf(f) @@
                    [cache_key |-> get_cache_key(f.query_text, f.filters, f.n_results),
                     results |-> search_results(index[f.handle.collection],
                                                f.handle.company_id, f.query_text,
                                                f.n_results, f.filters, f.use_hybrid)]]
                /\ pc' = [pc EXCEPT ![th] = "store"]
           ELSE /\ frame' = [frame EXCEPT ![th] = Returned(f, "query")]
                /\ pc' = [pc EXCEPT ![th] = "idle"]
        /\ UNCHANGED <<company_collections, provision_calls, index, search_cache,
                       now, ticks, ret, session>>

\* search_cache[cache_key] = (time.time(), results); if len(search_cache) > 100,
\* _clean_cache reads the clock and starts to iterate search_cache.items()
add_to_cache_store(th) ==
    LET f == frame[th]
        stored == [k \in DOMAIN search_cache \cup {f.cache_key} |->
                     IF k = f.cache_key THEN [timestamp |-> now, results |-> f.results]
                     ELSE search_cache[k]]
    IN  /\ pc[th] = "store"
        /\ search_cache' = stored
        /\ IF CacheIsTooLarge(stored)
           THEN /\ frame' = [frame EXCEPT ![th] =
                                f @@ [current_time |-> now,
                                      size |-> Cardinality(DOMAIN stored)]]
                /\ pc' = [pc EXCEPT ![th] = "scan"]
           ELSE /\ frame' = [frame EXCEPT ![th] = Returned(f, "none")]
                /\ pc' = [pc EXCEPT ![th] = "idle"]
        /\ UNCHANGED <<company_collections, provision_calls, index, now, ticks, ret, session>>

\* the for loop over search_cache.items(): the dict iterator raises
\* RuntimeError when the dict's size is no longer the size it started with
clean_cache_scan(th) ==
    LET f == frame[th]
    IN  /\ pc[th] = "scan"
        /\ IF Cardinality(DOMAIN search_cache) # f.size
           THEN /\ frame' = [frame EXCEPT ![th] = Returned(f, "RuntimeError")]
                /\ pc' = [pc EXCEPT ![th] = "idle"]
           ELSE /\ frame' = [frame EXCEPT ![th] =
                                f @@ [expired_keys |->
                                        {k \in DOMAIN search_cache :
                                            IsSwept(search_cache[k], f.current_time)}]]
                /\ pc' = [pc EXCEPT ![th] = "delete"]
        /\ UNCHANGED <<company_collections, provision_calls, index, search_cache,
                       now, ticks, ret, session>>

\* one round of `for key in expired_keys: del search_cache[key]`; del raises
\* KeyError for a key that is no longer there.  The keys are taken in one
\* fixed order.
clean_cache_delete(th) ==
    LET f == frame[th]
    IN  /\ pc[th] = "delete"
        /\ IF f.expired_keys = {}
           THEN /\ frame' = [frame EXCEPT ![th] = Returned(f, "none")]
                /\ pc' = [pc EXCEPT ![th] = "idle"]
                /\ UNCHANGED search_cache
           ELSE LET key == CHOOSE k \in f.expired_keys : TRUE
                IN  IF key \in DOMAIN search_cache
                    THEN /\ search_cache' =
                                [k \in DOMAIN search_cache \ {key} |-> search_cache[k]]
                         /\ frame' = [frame EXCEPT ![th].expired_keys = @ \ {key}]
                         /\ UNCHANGED pc
                    ELSE /\ frame' = [frame EXCEPT ![th] = Returned(f, "KeyError")]
                         /\ pc' = [pc EXCEPT ![th] = "idle"]
                         /\ UNCHANGED search_cache
        /\ UNCHANGED <<company_collections, provision_calls, index, now, ticks, ret, session>>

\* texts that are not in the cache of InitSweep
FreshQueries == {QueryHours, QueryFees, FillerQuery(max_entries)}

NextCacheConc ==
    \/ \E th \in Threads, h \in Handles, q \in FreshQueries :
          search_call(th, h, q, 1, None, FALSE, "ok")
    \/ \E th \in Threads : search_answered(th)
    \/ \E th \in Threads : add_to_cache_store(th)
    \/ \E th \in Threads : clean_cache_scan(th)
    \/ \E th \in Threads : clean_cache_delete(th)
    \/ Tick(cache_ttl - 1)

SpecCacheConc == InitSweep /\ [][NextCacheConc]_vars

-----------------------------------------------------------------------------
(* The reranker on its own: _apply_hybrid_search applied to the answers an
   index can give, which list their candidates by ascending distance *)

MaxCandidates == 3

RerankTexts == {TextHours, TextFees}

RerankDistances == {0, 900, DistOne, 1200}

RerankQueries == {QueryHours, QueryFees}

CandidateIds == <<"c1", "c2", "c3", "c4">>

\* an index answer with n candidates
VectorResults(n) ==
    {[documents |-> docs, ids |-> SubSeq(CandidateIds, 1, n), distances |-> dists,
      metadatas |-> [i \in 1..n |-> <<<<"company_id", "a">>>>]] :
        docs \in [1..n -> RerankTexts],
        dists \in {d \in [1..n -> RerankDistances] :
                      \A i \in 1..(n - 1) : d[i] <= d[i + 1]}}

InitRerank ==
    /\ company_collections = [k \in {} |-> 0]
    /\ provision_calls = [n \in Names |-> 0]
    /\ index = [n \in {} |-> 0]
    /\ search_cache = EmptyCache
    /\ now = 0
    /\ ticks = 0
    /\ \E n \in 1..MaxCandidates, q \in RerankQueries, k \in 1..MaxCandidates :
          \E v \in VectorResults(n) :
             ret = [op |-> "arguments", seq |-> 0, query_text |-> q,
                    vector_results |-> v, n_results |-> k]
    /\ pc = [th \in Threads |-> "idle"]
    /\ frame = [th \in Threads |-> [op |-> "none"]]
    /\ session = None

rerank ==
    /\ ret.op = "arguments"
    /\ ret' = [op |-> "apply_hybrid_search", seq |-> 1,
               query_text |-> ret.query_text, vector_results |-> ret.vector_results,
               n_results |-> ret.n_results,
               result |-> apply_hybrid_search(ret.query_text, ret.vector_results,
                                              ret.n_results)]
    /\ UNCHANGED <<company_collections, provision_calls, index, search_cache, now,
                   ticks, pc, frame, session>>

SpecRerank == InitRerank /\ [][rerank]_vars

-----------------------------------------------------------------------------
(* The keyword score on its own: _calculate_keyword_score applied to keyword
   lists that _extract_keywords can give (lower-case words longer than two
   letters, none of them a common word, a word as often as the query has it) *)

MaxKeywords == 3

KeywordChoices == {"hours", "fees", "open"}

KeywordLists ==
    UNION {[1..n -> KeywordChoices] : n \in 0..MaxKeywords}

InitKeyword ==
    /\ company_collections = [k \in {} |-> 0]
    /\ provision_calls = [n \in Names |-> 0]
    /\ index = [n \in {} |-> 0]
    /\ search_cache = EmptyCache
    /\ now = 0
    /\ ticks = 0
    /\ \E text \in RerankTexts, keywords \in KeywordLists :
          ret = [op |-> "arguments", seq |-> 0, text |-> text, keywords |-> keywords]
    /\ pc = [th \in Threads |-> "idle"]
    /\ frame = [th \in Threads |-> [op |-> "none"]]
    /\ session = None

score_keywords ==
    /\ ret.op = "arguments"
    /\ ret' = [op |-> "calculate_keyword_score", seq |-> 1,
               text |-> ret.text, keywords |-> ret.keywords,
               result |-> calculate_keyword_score(ret.text, ret.keywords)]
    /\ UNCHANGED <<company_collections, provision_calls, index, search_cache, now,
                   ticks, pc, frame, session>>

SpecKeyword == InitKeyword /\ [][score_keywords]_vars

-----------------------------------------------------------------------------
(* One tenant with one category: a document about business hours is added
   and searched for *)

TextBusiness == "Our business hours are Monday-Friday 9AM-5PM."

QueryBusiness == "what are your business hours"

InitScenario ==
    /\ company_collections = [k \in {} |-> 0]
    /\ provision_calls = [n \in {collection_name("acme", "faq")} |-> 0]
    /\ index = [n \in {} |-> 0]
    /\ search_cache = EmptyCache
    /\ now = 0
    /\ ticks = 0
    /\ ret = [op |-> "none", seq |-> 0]
    /\ pc = [th \in Threads |-> "idle"]
    /\ frame = [th \in Threads |-> [op |-> "none"]]
    /\ session = None

NextScenario ==
    \/ \E o \in Outcomes : get_collection("acme", "faq", o)
    \/ \E h \in Handles, o \in Outcomes :
          add_documents(h, <<"d1">>, <<TextBusiness>>, None, o)
    \/ \E h \in Handles, n \in {1, 2}, hyb \in BOOLEAN, o \in Outcomes :
          search(h, QueryBusiness, n, None, hyb, o)
    \/ Tick(cache_ttl - 1)

SpecScenario == InitScenario /\ [][NextScenario]_vars

-----------------------------------------------------------------------------
(* One tenant holds two documents and searches them with and without
   reranking.  For 'fees due' the nearer document has none of the keywords
   and the farther one has both. *)

NextOrder ==
    \/ get_collection("a", "c", "ok")
    \/ \E h \in Handles :
          add_documents(h, <<"d1", "d2">>, <<TextHours, TextFees>>, None, "ok")
    \/ \E h \in Handles, q \in {QueryDue, QueryFees}, hyb \in BOOLEAN, o \in Outcomes :
          search(h, q, 2, None, hyb, o)
    \/ Tick(cache_ttl - 1)

SpecOrder == Init /\ [][NextOrder]_vars

-----------------------------------------------------------------------------
(* One tenant searches with filter dicts that hold the same items in either
   insertion order.  The dict built category first is used for plain
   searches, the one built company_id first for hybrid searches. *)

FilterCategoryFirst == <<<<"category", "p">>, <<"company_id", "a">>>>

FilterCompanyFirst == <<<<"company_id", "a">>, <<"category", "p">>>>

FilterDicts == {FilterCategoryFirst, FilterCompanyFirst, <<<<"category", "p">>>>}

NextFilters ==
    \/ get_collection("a", "c", "ok")
    \/ \E h \in Handles :
          add_documents(h, <<"d1">>, <<TextHours>>,
                        Some(<<Some(<<<<"category", "p">>>>)>>), "ok")
    \/ \E h \in Handles, o \in Outcomes :
          search(h, QueryHours, 1, Some(FilterCategoryFirst), FALSE, o)
    \/ \E h \in Handles, o \in Outcomes :
          search(h, QueryHours, 1, Some(FilterCompanyFirst), TRUE, o)
    \/ \E h \in Handles :
          search(h, QueryHours, 1, Some(<<<<"category", "p">>>>), FALSE, "ok")
    \/ Tick(cache_ttl - 1)

SpecFilters == Init /\ [][NextFilters]_vars

-----------------------------------------------------------------------------
(* One tenant adds documents under ids that the collection may already hold,
   with other texts and other metadata *)

UpsertBatches ==
    {[ids |-> <<"d1">>, documents |-> <<t>>, metadatas |-> m] :
        t \in {TextHours, TextFees},
        m \in {None, Some(<<Some(<<<<"category", "p">>>>)>>)}}
    \cup {[ids |-> <<"d1", "d2">>, documents |-> docs, metadatas |-> None] :
            docs \in {<<TextHours, TextFees>>, <<TextFees, TextHours>>}}
    \cup {[ids |-> <<"d1", "d1">>, documents |-> <<TextHours, TextFees>>,
           metadatas |-> None]}

NextUpsert ==
    \/ get_collection("a", "c", "ok")
    \/ \E h \in Handles, b \in UpsertBatches, o \in Outcomes :
          add_documents(h, b.ids, b.documents, b.metadatas, o)

SpecUpsert == Init /\ [][NextUpsert]_vars

-----------------------------------------------------------------------------
(* Tenants provision collections and list their own *)

NextList ==
    \/ \E t \in Tenants, c \in Categories : get_collection(t, c, "ok")
    \/ \E t \in Tenants, o \in Outcomes : list_company_collections(t, o)

SpecList == Init /\ [][NextList]_vars

-----------------------------------------------------------------------------
(* The constructor on its own, for every way of giving or leaving out the api
   key, the tenant and the database *)

Settings == {None, Some(""), Some("x")}

InitConstruct ==
    /\ company_collections = [k \in {} |-> 0]
    /\ provision_calls = [n \in Names |-> 0]
    /\ index = [n \in {} |-> 0]
    /\ search_cache = EmptyCache
    /\ now = 0
    /\ ticks = 0
    /\ ret \in [op : {"arguments"}, seq : {0},
                api_key : Settings, tenant : Settings, database : Settings,
                CHROMADB_API_KEY : Settings, CHROMADB_TENANT : Settings,
                CHROMADB_DATABASE : Settings]
    /\ pc = [th \in Threads |-> "idle"]
    /\ frame = [th \in Threads |-> [op |-> "none"]]
    /\ session = None

NextConstruct == \E o \in Outcomes : construct(o)

SpecConstruct == InitConstruct /\ [][NextConstruct]_vars

-----------------------------------------------------------------------------
(* Intent detection on its own *)

IntentQueries ==
    {"I need to schedule a medical consultation for my diabetes",
     "I need medical advice",
     "What are your business hours?",
     "Cancel my appointment",
     "My invoice is wrong",
     "Hello"}

IntentDocTypes == {<<>>, <<"faq">>, <<"policy", "procedure">>, <<"manual">>}

IntentDomains ==
    {None, Some("healthcare"), Some("appointment"), Some("general"), Some("billing")}

InitIntent ==
    /\ company_collections = [k \in {} |-> 0]
    /\ provision_calls = [n \in Names |-> 0]
    /\ index = [n \in {} |-> 0]
    /\ search_cache = EmptyCache
    /\ now = 0
    /\ ticks = 0
    /\ ret \in [op : {"arguments"}, seq : {0}, query : IntentQueries,
                doc_types : IntentDocTypes, domain : IntentDomains]
    /\ pc = [th \in Threads |-> "idle"]
    /\ frame = [th \in Threads |-> [op |-> "none"]]
    /\ session = None

detect ==
    /\ ret.op = "arguments"
    /\ ret' = [op |-> "detect_query_intent", seq |-> 1, query |-> ret.query,
               doc_types |-> ret.doc_types, domain |-> ret.domain,
               result |-> detect_query_intent(ret.query, ret.doc_types, ret.domain)]
    /\ UNCHANGED <<company_collections, provision_calls, index, search_cache, now,
                   ticks, pc, frame, session>>

SpecIntent == InitIntent /\ [][detect]_vars

-----------------------------------------------------------------------------
(* The RAG reply on its own, for every state of the RAG engine and of the
   context manager *)

RagStates == {"none", "raise", "no_response", "empty_answer", "answer"}

ManagerStates == {"absent", "fails", "summary_fails", "turn_fails", "works"}

Contexts ==
    [turns : {0, 1},
     current_topic : {None, Some("appointment_booking"), Some("billing_policy")},
     relevant_documents : {0}]

InitReply ==
    /\ company_collections = [k \in {} |-> 0]
    /\ provision_calls = [n \in Names |-> 0]
    /\ index = [n \in {} |-> 0]
    /\ search_cache = EmptyCache
    /\ now = 0
    /\ ticks = 0
    /\ ret \in [op : {"arguments"}, seq : {0},
                rag : RagStates, manager : ManagerStates, context : Contexts,
                answer : {TextBusiness},
                doc_types : {<<"faq">>, <<"procedure">>},
                user_query : {"What are your business hours?", "And what about fees?"},
                session_id : {None, Some("test_session")},
                current_session_id : {None, Some("current")}]
    /\ pc = [th \in Threads |-> "idle"]
    /\ frame = [th \in Threads |-> [op |-> "none"]]
    /\ session = None

reply ==
    /\ ret.op = "arguments"
    /\ ret' = [ret EXCEPT !.op = "generate_rag_enhanced_response", !.seq = 1]
              @@ generate_rag_enhanced_response(ret)
    /\ UNCHANGED <<company_collections, provision_calls, index, search_cache, now,
                   ticks, pc, frame, session>>

SpecReply == InitReply /\ [][reply]_vars

-----------------------------------------------------------------------------
(* The agent's constructor on its own, for dependencies that work or fail *)

InitAgent ==
    /\ company_collections = [k \in {} |-> 0]
    /\ provision_calls = [n \in Names |-> 0]
    /\ index = [n \in {} |-> 0]
    /\ search_cache = EmptyCache
    /\ now = 0
    /\ ticks = 0
    /\ ret \in [op : {"arguments"}, seq : {0}, config : BOOLEAN,
                stt : Outcomes, llm : Outcomes, tts : Outcomes,
                knowledge_base : Outcomes, rag_engine : Outcomes,
                learning_engine : Outcomes, base : Outcomes]
    /\ pc = [th \in Threads |-> "idle"]
    /\ frame = [th \in Threads |-> [op |-> "none"]]
    /\ session = None

construct_agent ==
    /\ ret.op = "arguments"
    /\ ret' = [ret EXCEPT !.op = "BusinessVoiceAgent", !.seq = 1] @@ agent_init(ret)
    /\ UNCHANGED <<company_collections, provision_calls, index, search_cache, now,
                   ticks, pc, frame, session>>

SpecAgent == InitAgent /\ [][construct_agent]_vars

-----------------------------------------------------------------------------
(* One tenant with two categories: d1 is only ever added to category c and d2
   only to category b_c; both collections are searched with the same text *)

OwnBatch(h) ==
    IF h.collection_type = "c"
    THEN [ids |-> <<"d1">>, documents |-> <<TextHours>>]
    ELSE [ids |-> <<"d2">>, documents |-> <<TextFees>>]

NextShared ==
    \/ \E c \in Categories : get_collection("a", c, "ok")
    \/ \E h \in Handles :
          add_documents(h, OwnBatch(h).ids, OwnBatch(h).documents, None, "ok")
    \/ \E h \in Handles, hyb \in BOOLEAN, o \in Outcomes :
          search(h, QueryHours, 1, None, hyb, o)
    \/ Tick(cache_ttl - 1)

SpecShared == Init /\ [][NextShared]_vars

-----------------------------------------------------------------------------
(* The store of InitSweep after tenant a has added d1: threads search it at
   the same time, for texts that are not in the cache *)

InitLoaded ==
    LET h == NewHandle("a", "c", 1)
        stamped == stamp_metadatas("a", <<TextHours>>, None)
    IN  /\ company_collections = Register([k \in {} |-> 0], h.collection, h)
        /\ provision_calls = [n \in Names |-> IF n = h.collection THEN 1 ELSE 0]
        /\ index = [n \in {h.collection} |->
                       Upsert(EmptyCollection, <<"d1">>, <<TextHours>>, stamped)]
        /\ search_cache = FilledCache(max_entries - 1)
        /\ now = 0
        /\ ticks = 0
        /\ ret = [op |-> "add_documents", seq |-> 1, handle |-> h,
                  ids |-> <<"d1">>, documents |-> <<TextHours>>,
                  upsert |-> [ids |-> <<"d1">>, documents |-> <<TextHours>>,
                              metadatas |-> stamped],
                  raised |-> FALSE, result |-> TRUE]
        /\ pc = [th \in Threads |-> "idle"]
        /\ frame = [th \in Threads |-> [op |-> "none"]]
        /\ session = None

NextLoaded ==
    \/ \E th \in Threads, h \in Handles, q \in FreshQueries, hyb \in BOOLEAN :
          search_call(th, h, q, 1, None, hyb, "ok")
    \/ \E th \in Threads : search_answered(th)
    \/ \E th \in Threads : add_to_cache_store(th)
    \/ \E th \in Threads : clean_cache_scan(th)
    \/ \E th \in Threads : clean_cache_delete(th)

SpecLoaded == InitLoaded /\ [][NextLoaded]_vars

-----------------------------------------------------------------------------
(* The reranker on index answers whose candidates each carry metadata of
   their own *)

\* the metadata of the candidate at place i: the tenant's tag and the
\* candidate's section
SectionMetadata(i) == <<<<"company_id", "a">>, <<"section", ToString(i)>>>>

\* an index answer with n candidates
SectionResults(n) ==
    {[documents |-> docs, ids |-> SubSeq(CandidateIds, 1, n), distances |-> dists,
      metadatas |-> [i \in 1..n |-> SectionMetadata(i)]] :
        docs \in [1..n -> RerankTexts],
        dists \in {d \in [1..n -> RerankDistances] :
                      \A i \in 1..(n - 1) : d[i] <= d[i + 1]}}

InitSelect ==
    /\ company_collections = [k \in {} |-> 0]
    /\ provision_calls = [n \in Names |-> 0]
    /\ index = [n \in {} |-> 0]
    /\ search_cache = EmptyCache
    /\ now = 0
    /\ ticks = 0
    /\ \E n \in 1..MaxCandidates, k \in 1..MaxCandidates :
          \E v \in SectionResults(n) :
             ret = [op |-> "arguments", seq |-> 0, query_text |-> QueryHours,
                    vector_results |-> v, n_results |-> k]
    /\ pc = [th \in Threads |-> "idle"]
    /\ frame = [th \in Threads |-> [op |-> "none"]]
    /\ session = None

SpecSelect == InitSelect /\ [][rerank]_vars

-----------------------------------------------------------------------------
(* RAGEnhancedSession (agent.py): the wrapper that replaces
   session.generate_reply.  A reply request is a coroutine; it gives up
   control at its two awaits, of agent._generate_rag_enhanced_response and of
   original_generate_reply, and other requests of the session run meanwhile.
   pc is "rag" at the first await and "llm" at the second. *)

max_google_calls == 10

\* RAGEnhancedSession.__init__; llm_calls counts the calls of
\* original_generate_reply
NewSession == [google_api_calls |-> 0, fallback_mode |-> FALSE, llm_calls |-> 0]

\* what original_generate_reply hands back
LlmReply == "<reply of the wrapped LLM>"

RephraseReply ==
    "I'm here to help you with your healthcare needs. Could you please rephrase your question or ask about our services, appointments, or general information?"

AssistReply ==
    "I'm here to help you with your healthcare needs. How can I assist you today?"

ApologyReply ==
    "I apologize, but I'm experiencing some technical difficulties. Please let me know how I can help you with your healthcare needs."

CannedReplies == {RephraseReply, AssistReply, ApologyReply}

\* the text that the learned information adds to a reply
LearnedContent == "\n\nAdditionally, from previous conversations I learned:\n- x\n"

\* what search_learned_information gives: nothing, one piece of information
\* that does not conflict with the RAG response, or an exception
LearnedResults == {"none", "usable", "raise"}

\* combined_response: the RAG response with the usable learned information
combine(rag_response, learned) ==
    IF learned # "usable" THEN rag_response
    ELSE IF Truthy(rag_response) THEN Some(Val(rag_response) \o LearnedContent)
    ELSE Some("Based on what I've learned from previous conversations:\n"
              \o LearnedContent)

\* the request of task t returns
Reply(t, text) ==
    /\ pc' = [pc EXCEPT ![t] = "idle"]
    /\ frame' = [frame EXCEPT ![t] =
                    [op |-> "generate_reply",
                     fallback_at_start |-> frame[t].fallback_at_start,
                     counted |-> frame[t].counted,
                     result |-> text]]

\* self.google_api_calls += 1, then the await of original_generate_reply
CallLlm(t, f, fallback) ==
    /\ session' = [google_api_calls |-> session.google_api_calls + 1,
                   fallback_mode |-> fallback,
                   llm_calls |-> session.llm_calls + 1]
    /\ pc' = [pc EXCEPT ![t] = "llm"]
    /\ frame' = [frame EXCEPT ![t] = f @@ [counted |-> TRUE]]

\* a request starts: lines 566-587, and lines 696-712 when there is no user
\* message; learning is how detect_user_learning_opportunity ends
generate_reply_call(t, user_query, learning) ==
    LET fallback == session.fallback_mode
                    \/ session.google_api_calls >= max_google_calls
        f == [op |-> "generate_reply", fallback_at_start |-> session.fallback_mode,
              user_query |-> user_query, combined_response |-> None]
    IN  /\ pc[t] = "idle"
        /\ IF Truthy(user_query)
           THEN IF learning = "raise"
                THEN /\ session' = [session EXCEPT !.fallback_mode = fallback]
                     /\ pc' = pc
                     /\ frame' = [frame EXCEPT ![t] =
                                     [op |-> "generate_reply",
                                      fallback_at_start |-> session.fallback_mode,
                                      counted |-> FALSE, result |-> ApologyReply]]
                ELSE /\ session' = [session EXCEPT !.fallback_mode = fallback]
                     /\ pc' = [pc EXCEPT ![t] = "rag"]
                     /\ frame' = [frame EXCEPT ![t] = f @@ [counted |-> FALSE]]
           ELSE /\ learning = "ok"
                /\ IF ~fallback
                   THEN CallLlm(t, f, fallback)
                   ELSE /\ session' = [session EXCEPT !.fallback_mode = fallback]
                        /\ pc' = pc
                        /\ frame' = [frame EXCEPT ![t] =
                                        [op |-> "generate_reply",
                                         fallback_at_start |-> session.fallback_mode,
                                         counted |-> FALSE, result |-> AssistReply]]
        /\ UNCHANGED <<company_collections, provision_calls, index, search_cache,
                       now, ticks, ret>>

\* the RAG response arrives: lines 589-697
generate_reply_rag(t, rag_response, learned) ==
    LET combined_response == combine(rag_response, learned)
        f == [frame[t] EXCEPT !.combined_response = combined_response]
    IN  /\ pc[t] = "rag"
        /\ IF learned = "raise"
           THEN Reply(t, ApologyReply) /\ UNCHANGED session
           ELSE IF Truthy(combined_response)
           THEN IF session.fallback_mode
                THEN Reply(t, Val(combined_response)) /\ UNCHANGED session
                ELSE CallLlm(t, [c \in DOMAIN f \ {"counted"} |-> f[c]], FALSE)
           ELSE IF session.fallback_mode
                THEN Reply(t, RephraseReply) /\ UNCHANGED session
                ELSE CallLlm(t, [c \in DOMAIN f \ {"counted"} |-> f[c]], FALSE)
        /\ UNCHANGED <<company_collections, provision_calls, index, search_cache,
                       now, ticks, ret>>

\* a wrapper that leaves fallback mode when a call of the LLM succeeds
generate_reply_llm_resets(t, outcome) ==
    /\ pc[t] = "llm"
    /\ IF outcome = "ok"
       THEN Reply(t, LlmReply) /\ session' = [session EXCEPT !.fallback_mode = FALSE]
       ELSE /\ session' = [session EXCEPT !.fallback_mode = TRUE]
            /\ IF Truthy(frame[t].combined_response)
               THEN Reply(t, Val(frame[t].combined_response))
               ELSE Reply(t, AssistReply)
    /\ UNCHANGED <<company_collections, provision_calls, index, search_cache,
                   now, ticks, ret>>

\* original_generate_reply returns or raises: lines 679-689 and 701-709
generate_reply_llm(t, outcome) ==
    /\ pc[t] = "llm"
    /\ IF outcome = "ok"
       THEN Reply(t, LlmReply) /\ UNCHANGED session
       ELSE /\ session' = [session EXCEPT !.fallback_mode = TRUE]
            /\ IF Truthy(frame[t].combined_response)
               THEN Reply(t, Val(frame[t].combined_response))
               ELSE Reply(t, AssistReply)
    /\ UNCHANGED <<company_collections, provision_calls, index, search_cache,
                   now, ticks, ret>>

UserQueries == {None, Some("what are your fees")}

RagResponses == {None, Some("Fees are due")}

InitSession ==
    /\ company_collections = [k \in {} |-> 0]
    /\ provision_calls = [n \in Names |-> 0]
    /\ index = [n \in {} |-> 0]
    /\ search_cache = EmptyCache
    /\ now = 0
    /\ ticks = 0
    /\ ret = [op |-> "RAGEnhancedSession", seq |-> 0]
    /\ pc = [t \in Threads |-> "idle"]
    /\ frame = [t \in Threads |-> [op |-> "none"]]
    /\ session = NewSession

NextSession ==
    \/ \E t \in Threads, q \in UserQueries, l \in Outcomes : generate_reply_call(t, q, l)
    \/ \E t \in Threads, r \in RagResponses, l \in LearnedResults :
          generate_reply_rag(t, r, l)
    \/ \E t \in Threads, o \in Outcomes : generate_reply_llm(t, o)

SpecSession == InitSession /\ [][NextSession]_vars

-----------------------------------------------------------------------------
(* entrypoint (agent.py): the job's coroutine.  w gives how each of its
   calls ends: config loaded or not, the constructors of the agent and the
   sessions, the ctx.connect calls of the loop in their order, session.start,
   the greeting by generate_reply and by say, and the ctx.connect call of the
   outer except clause. *)

max_retries == 3

connection_timeout == 15

ConnectOutcomes == {"ok", "timeout", "raise"}

\* the loop of lines 789-808 from the given attempt on (attempts count from
\* 0): the ctx.connect calls it makes, the sleeps, and whether it was left by
\* break or by an exception
RECURSIVE connect_loop(_, _)
connect_loop(connects, attempt) ==
    LET call == [timeout |-> Some(connection_timeout), outcome |-> connects[attempt + 1]]
    IN  IF attempt >= max_retries
        THEN [connect_calls |-> <<>>, sleeps |-> 0, connected |-> FALSE, raised |-> FALSE]
        ELSE IF call.outcome = "ok"
        THEN [connect_calls |-> <<call>>, sleeps |-> 0, connected |-> TRUE,
              raised |-> FALSE]
        ELSE IF attempt = max_retries - 1
        THEN [connect_calls |-> <<call>>, sleeps |-> 0, connected |-> FALSE,
              raised |-> TRUE]
        ELSE LET rest == connect_loop(connects, attempt + 1)
             IN  [rest EXCEPT !.connect_calls = <<call>> \o @, !.sleeps = @ + 1]

\* lines 816-831: the greeting, which never raises
greet(w) ==
    IF w.generate_reply = "ok" THEN "generate_reply"
    ELSE IF w.say = "ok" THEN "say"
    ELSE "none"

\* lines 835-843: ctx.connect is called once more, with no timeout
fallback_service(w, done) ==
    LET call == [timeout |-> None, outcome |-> w.fallback_connect]
    IN  [raised |-> IF call.outcome = "ok" THEN "none" ELSE "Exception",
         connect_calls |-> done.connect_calls \o <<call>>,
         sleeps |-> done.sleeps,
         session_started |-> done.session_started,
         greeting |-> "none"]

entrypoint(w) ==
    LET nothing == [connect_calls |-> <<>>, sleeps |-> 0, session_started |-> FALSE]
        loop == connect_loop(w.connects, 0)
        looped == [connect_calls |-> loop.connect_calls, sleeps |-> loop.sleeps,
                   session_started |-> FALSE]
    IN  IF ~w.config
        THEN nothing @@ [raised |-> "ValueError", greeting |-> "none"]
        ELSE IF w.agent = "raise" THEN fallback_service(w, nothing)
        ELSE IF loop.raised THEN fallback_service(w, looped)
        ELSE IF w.start = "raise"
        THEN fallback_service(w, [looped EXCEPT !.session_started = TRUE])
        ELSE [raised |-> "none", connect_calls |-> loop.connect_calls,
              sleeps |-> loop.sleeps, session_started |-> TRUE,
              greeting |-> greet(w)]

EntryWorlds ==
    [config : BOOLEAN, agent : Outcomes, connects : [1..max_retries -> ConnectOutcomes],
     start : Outcomes, generate_reply : Outcomes, say : Outcomes,
     fallback_connect : Outcomes]

InitEntry ==
    /\ company_collections = [k \in {} |-> 0]
    /\ provision_calls = [n \in Names |-> 0]
    /\ index = [n \in {} |-> 0]
    /\ search_cache = EmptyCache
    /\ now = 0
    /\ ticks = 0
    /\ \E w \in EntryWorlds : ret = [op |-> "arguments", seq |-> 0, world |-> w]
    /\ pc = [th \in Threads |-> "idle"]
    /\ frame = [th \in Threads |-> [op |-> "none"]]
    /\ session = None

run_entrypoint ==
    /\ ret.op = "arguments"
    /\ ret' = [op |-> "entrypoint", seq |-> 1, world |-> ret.world]
                 @@ entrypoint(ret.world)
    /\ UNCHANGED <<company_collections, provision_calls, index, search_cache, now,
                   ticks, pc, frame, session>>

SpecEntry == InitEntry /\ [][run_entrypoint]_vars

-----------------------------------------------------------------------------
(* Properties *)

\* the isolation tag of a stored or returned document
TagOf(metadata) == DictGet(metadata, "company_id")

\* the step is a call of search
SearchStep == ret'.seq # ret.seq /\ ret'.op = "search"

\* the cache key of the call that ret' describes
CallKey == get_cache_key(ret'.query_text, ret'.filters, ret'.n_results)

\* the cache holds an entry for the key that is younger than the ttl
Servable(cache, k, t) == k \in DOMAIN cache /\ t - cache[k].timestamp < cache_ttl

\* C1: a search made through a collection of one tenant returns no document
\* that was added under another tenant (every returned document carries the
\* tag of the collection that was searched), whatever filters are given
C1_SearchReturnsOwnDocuments ==
    ret.op = "search" =>
        \A i \in 1..Len(ret.result.metadatas) :
            TagOf(ret.result.metadatas[i]) = ret.handle.company_id

\* C2: the where clause of every index query holds company_id equal to the
\* collection's own company id, whatever filters the caller gives
C2_WhereKeepsTenant ==
    (ret.op = "search" /\ ~IsNone(ret.queried)) =>
        LET where == Val(ret.queried).where
        IN  DictHas(where, "company_id") /\ DictGet(where, "company_id") = ret.handle.company_id

\* C3: every add_documents call hands upsert one metadata record per document,
\* each with company_id equal to the collection's own company id
C3_UpsertTagsEveryDocument ==
    ret.op = "add_documents" =>
        /\ Len(ret.upsert.metadatas) = Len(ret.upsert.documents)
        /\ \A i \in 1..Len(ret.upsert.metadatas) :
              /\ DictHas(ret.upsert.metadatas[i], "company_id")
              /\ TagOf(ret.upsert.metadatas[i]) = ret.handle.company_id

\* C4: get_collection(tenant, category) returns a handle of that tenant and
\* that category (no two pairs share a registry entry)
C4_HandleIsOfRequestedPair ==
    (ret.op = "get_collection" /\ ~ret.raised) =>
        /\ ret.handle.company_id = ret.company_id
        /\ ret.handle.collection_type = ret.collection_type

\* C5: a search whose key has a cache entry younger than cache_ttl returns
\* that entry's result, makes no index query and leaves the cache alone; a
\* search whose key has no entry, or one of age >= cache_ttl, queries the
\* index; a result is stored under the search's key with the time of the
\* insertion; and no step changes or drops an entry younger than cache_ttl
C5_CacheServesWithinTtl ==
    [][/\ SearchStep =>
            IF Servable(search_cache, CallKey, now)
            THEN /\ ret'.result = search_cache[CallKey].results
                 /\ IsNone(ret'.queried)
                 /\ search_cache' = search_cache
            ELSE /\ ~IsNone(ret'.queried)
                 /\ search_cache' # search_cache =>
                       /\ CallKey \in DOMAIN search_cache'
                       /\ search_cache'[CallKey] =
                              [timestamp |-> now, results |-> ret'.result]
       /\ \A k \in DOMAIN search_cache :
            Servable(search_cache, k, now) =>
                k \in DOMAIN search_cache' /\ search_cache'[k] = search_cache[k]
      ]_vars

\* C5 witness: a search was answered from the cache, after time has passed,
\* with a result the index would no longer give
C5_Witness ==
    /\ ret.op = "search" /\ IsNone(ret.queried) /\ now > 0
    /\ ret.query_text = QueryHours
    /\ Len(ret.result.ids) = 0
    /\ "d1" \in DOMAIN index[ret.handle.collection]

\* C6: after a cache insert that finds more than max_entries entries in the
\* store, no entry of age >= cache_ttl is left
C6_SweepLeavesNoExpired ==
    [][(/\ SearchStep
        /\ search_cache' # search_cache
        /\ Cardinality(DOMAIN search_cache \cup {CallKey}) > max_entries)
       => \A k \in DOMAIN search_cache' : now - search_cache'[k].timestamp < cache_ttl
      ]_vars

\* C7: after every cache insert the cache holds at most max_entries entries
C7_CacheWithinLimit == Cardinality(DOMAIN search_cache) <= max_entries

\* C8: a search whose index query raised raises nothing itself and returns a
\* result with no documents
C8_FailedQueryGivesEmptyResult ==
    (ret.op = "search" /\ ~IsNone(ret.queried) /\ Val(ret.queried).answer = "raise") =>
        /\ ~ret.raised
        /\ Len(ret.result.documents) = 0
        /\ Len(ret.result.ids) = 0

\* C8 witness: the index query of a search raised on a collection that holds
\* a document the query would have matched
C8_Witness ==
    /\ ret.op = "search" /\ ~IsNone(ret.queried) /\ Val(ret.queried).answer = "raise"
    /\ IsNone(ret.filters)
    /\ "d1" \in DOMAIN index[ret.handle.collection]


\* a thread's call of get_collection has returned
HasReturned(th) ==
    pc[th] = "idle" /\ frame[th].op = "get_collection" /\ ~frame[th].raised

\* C10: also when threads ask for one (tenant, category) at the same time,
\* the index is asked to provision its collection once, and all callers get
\* the same handle object
C10_OneHandlePerKey ==
    /\ \A n \in Names : provision_calls[n] <= 1
    /\ \A t1, t2 \in Threads :
          (/\ HasReturned(t1) /\ HasReturned(t2)
           /\ frame[t1].company_id = frame[t2].company_id
           /\ frame[t1].collection_type = frame[t2].collection_type)
          => frame[t1].result = frame[t2].result


\* C9: every search call returns in the end, also when the index never
\* answers the query
C9_SearchReturns ==
    \A th \in Threads : (pc[th] = "querying") ~> (pc[th] = "idle")


\* C11: cache read, insert and sweep of concurrent searches exclude each
\* other: while a thread iterates the cache in its sweep no other thread
\* inserts into or deletes from the cache, and no sweep finds that an entry
\* it is about to delete was deleted by another sweep
C11_CacheAccessExclusive ==
    [][\A th \in Threads :
          /\ (pc[th] = "scan" /\ pc'[th] = "scan") =>
                DOMAIN search_cache' = DOMAIN search_cache
          /\ (pc[th] = "delete" /\ pc'[th] = "idle") => frame'[th].error # "KeyError"
      ]_vars


\* the step is a call of get_collection
GetCollectionStep == ret'.seq # ret.seq /\ ret'.op = "get_collection"

\* C12: in a sequential run a registry entry, once made, is never replaced
\* or dropped; a get_collection call that returns hands back the entry of
\* its key; a call whose key has an entry makes no get-or-create call to the
\* index; and a collection is provisioned only by a get_collection call for it
C12_ResolvedOnce ==
    [][/\ \A k \in DOMAIN company_collections :
             k \in DOMAIN company_collections'
             /\ company_collections'[k] = company_collections[k]
       /\ GetCollectionStep =>
             LET k == collection_name(ret'.company_id, ret'.collection_type)
             IN  /\ ~ret'.raised =>
                       k \in DOMAIN company_collections'
                       /\ ret'.handle = company_collections'[k]
                 /\ k \in DOMAIN company_collections =>
                       provision_calls' = provision_calls /\ index' = index
                 /\ \A n \in Names \ {k} : provision_calls'[n] = provision_calls[n]
       /\ ~GetCollectionStep => provision_calls' = provision_calls /\ index' = index
       /\ \A n \in DOMAIN index' : provision_calls'[n] > 0
      ]_vars

\* C12 witness: get_collection('a', 'c') has returned for at least the second
\* time, nothing else was ever asked for, and the index was asked to provision
\* a_c once
C12_Witness ==
    /\ ret.op = "get_collection" /\ ~ret.raised /\ ret.seq = 0
    /\ ret.company_id = "a" /\ ret.collection_type = "c"
    /\ provision_calls = [n \in Names |-> IF n = "a_c" THEN 1 ELSE 0]


\* the candidate's place in the answer of the index
PlaceOf(vector_results, id) ==
    CHOOSE i \in 1..Len(vector_results.ids) : vector_results.ids[i] = id

\* the combined score of the candidate at place i of the index's answer
ScoreAt(query_text, vector_results, i) ==
    combined_score(query_text, vector_results.documents[i], vector_results.distances[i])

\* C13: the reranker returns the n_results candidates of highest combined
\* score (all of them when there are fewer), by descending combined score,
\* and of two candidates with equal combined score the one the index listed
\* first comes first
C13_RerankOrder ==
    ret.op = "apply_hybrid_search" =>
        LET v == ret.vector_results
            r == ret.result
            place(k) == PlaceOf(v, r.ids[k])
            score(k) == ScoreAt(ret.query_text, v, place(k))
        IN  /\ Len(r.ids) = Min(ret.n_results, Len(v.ids))
            /\ \A k \in 1..Len(r.ids) : r.ids[k] \in Range(v.ids)
            /\ \A k \in 1..(Len(r.ids) - 1) :
                  \/ score(k) > score(k + 1)
                  \/ score(k) = score(k + 1) /\ place(k) < place(k + 1)
            /\ \A i \in 1..Len(v.ids) :
                  v.ids[i] \notin Range(r.ids) =>
                      \A k \in 1..Len(r.ids) :
                          \/ score(k) > ScoreAt(ret.query_text, v, i)
                          \/ score(k) = ScoreAt(ret.query_text, v, i) /\ place(k) < i

\* C13 witness: the reranker cut a list of three candidates to two, moved a
\* candidate ahead of one the index listed before it, and left out a
\* candidate whose score ties with the last one it returned
C13_Witness ==
    /\ ret.op = "apply_hybrid_search"
    /\ Len(ret.vector_results.ids) = 3 /\ ret.n_results = 2
    /\ ret.result.ids[1] # "c1"
    /\ \E i \in 1..3 :
          /\ ret.vector_results.ids[i] \notin Range(ret.result.ids)
          /\ ScoreAt(ret.query_text, ret.vector_results, i) = ret.result.relevance_scores[2]


C15_ScoresInUnitInterval ==
    ret.op = "apply_hybrid_search" =>
        \A i \in 1..Len(ret.vector_results.ids) :
            LET v == vector_score(ret.vector_results.distances[i])
                k == calculate_keyword_score(ret.vector_results.documents[i],
                                             extract_keywords(ret.query_text))
                c == ScoreAt(ret.query_text, ret.vector_results, i)
            IN  /\ 0 <= v /\ v <= DistOne
                /\ 0 <= k /\ k <= KwOne
                /\ 0 <= c /\ c <= 10 * DistOne * KwOne
                /\ \A j \in 1..Len(ret.result.relevance_scores) :
                      /\ 0 <= ret.result.relevance_scores[j]
                      /\ ret.result.relevance_scores[j] <= 10 * DistOne * KwOne

\* C15 witness: the reranker scored a candidate at distance 0 whose text
\* holds the whole keyword phrase (every score at 1.0) and a candidate
\* farther than 1.0 with no keyword (every score at 0.0)
C15_Witness ==
    /\ ret.op = "apply_hybrid_search"
    /\ \E k \in 1..Len(ret.result.ids) :
          ret.result.relevance_scores[k] = 10 * DistOne * KwOne
    /\ \E k \in 1..Len(ret.result.ids) :
          ret.result.relevance_scores[k] = 0 /\ ret.result.distances[k] > DistOne


\* C16: the keyword score is the number of distinct keywords found in the
\* lower-cased text over the number of distinct keywords (0 for no keywords),
\* plus 0.3 capped at 1.0 when the keywords joined by single spaces are in
\* the text; also for a list that repeats a keyword
C16_KeywordScoreOverDistinct ==
    ret.op = "calculate_keyword_score" =>
        LET distinct == Range(ret.keywords)
            found == {k \in distinct : Contains(Lower(ret.text), k)}
            share == IF distinct = {} THEN 0
                     ELSE (Cardinality(found) * KwOne) \div Cardinality(distinct)
            phrase == distinct # {} /\ Contains(Lower(ret.text), Join(" ", ret.keywords))
        IN  ret.result = IF phrase THEN Min(share + PhraseBonus, KwOne) ELSE share


\* C17: with d1 = 'Our business hours are Monday-Friday 9AM-5PM.' in the faq
\* collection of tenant acme, a hybrid search for 'what are your business
\* hours' with n_results = 1 that the index answers returns d1 with a keyword
\* score above 0, the keywords of the query being exactly business and hours,
\* and with relevance score 0.7 * vector score + 0.3 * keyword score
C17_BusinessHoursScenario ==
    (/\ ret.op = "search" /\ ret.query_text = QueryBusiness /\ ret.use_hybrid
     /\ ret.n_results = 1 /\ ~IsNone(ret.queried) /\ Val(ret.queried).answer = "ok"
     /\ "d1" \in DOMAIN index[ret.handle.collection])
    => LET keywords == extract_keywords(ret.query_text)
           keyword_score == calculate_keyword_score(TextBusiness, keywords)
       IN  /\ ret.result.ids = <<"d1">>
           /\ keyword_score > 0
           /\ Len(keywords) = 2 /\ Range(keywords) = {"business", "hours"}
           /\ \A k \in Range(keywords) : Contains(Lower(TextBusiness), k)
           /\ ret.result.relevance_scores =
                 <<WeightVector * KwOne * vector_score(ret.result.distances[1])
                   + WeightKeyword * DistOne * keyword_score>>


\* C18: a search whose key has no cache entry younger than cache_ttl asks the
\* index for 2 * n_results candidates when use_hybrid is true and for
\* n_results when it is false; a search whose key has such an entry asks the
\* index for nothing
C18_CandidatesAsked ==
    [][SearchStep =>
          IF Servable(search_cache, CallKey, now)
          THEN IsNone(ret'.queried)
          ELSE /\ ~IsNone(ret'.queried)
               /\ Val(ret'.queried).n_results =
                     IF ret'.use_hybrid THEN 2 * ret'.n_results ELSE ret'.n_results
      ]_vars

\* C18 witness: a hybrid search for two results missed the cache and asked
\* the index, which holds a document, for four candidates
C18_Witness ==
    /\ ret.op = "search" /\ ret.use_hybrid /\ ret.n_results = 2
    /\ ~IsNone(ret.queried) /\ Val(ret.queried).n_results = 4
    /\ "d1" \in DOMAIN index[ret.handle.collection]


\* C19: a search with use_hybrid false returns at most n_results candidates,
\* by ascending distance, whatever searches were made on the store before
C19_PlainSearchByDistance ==
    (ret.op = "search" /\ ~ret.use_hybrid) =>
        /\ Len(ret.result.ids) <= ret.n_results
        /\ \A k \in 1..(Len(ret.result.distances) - 1) :
              ret.result.distances[k] <= ret.result.distances[k + 1]


\* the two dicts hold the same items
SameItems(f, g) == Range(f) = Range(g)

\* C20: filter dicts that hold the same items in a different insertion order
\* give the same cache key, and a search is served the entry, younger than
\* cache_ttl, of an earlier search whose filters held the same items
C20_KeyIgnoresFilterOrder ==
    [][SearchStep =>
          \A g \in FilterDicts :
              (Truthy(ret'.filters) /\ SameItems(Val(ret'.filters), g)) =>
                  LET key == get_cache_key(ret'.query_text, Some(g), ret'.n_results)
                  IN  /\ key = CallKey
                      /\ Servable(search_cache, key, now) =>
                            /\ IsNone(ret'.queried)
                            /\ ret'.result = search_cache[key].results
      ]_vars

\* C20 witness: a hybrid search with the filters built company_id first was
\* served a result that has a document and no relevance scores, which only a
\* plain search, made with the filters built category first, can have stored
C20_Witness ==
    /\ ret.op = "search" /\ ret.use_hybrid /\ IsNone(ret.queried)
    /\ ret.filters = Some(FilterCompanyFirst)
    /\ Len(ret.result.ids) = 1
    /\ "relevance_scores" \notin DOMAIN ret.result


\* the step is a call of add_documents
AddStep == ret'.seq # ret.seq /\ ret'.op = "add_documents"

\* the ids a search of the tenant's collection can find
Visible(idx, h) ==
    Range(Query(idx[h.collection], QueryHours, Len(AllIds),
                build_where(h.company_id, None)).ids)

\* C21: add_documents hands the index the whole batch in its one upsert call
\* and raises nothing; when it returns False the index is as it was before
\* (no document of the batch has become visible), and when it returns True
\* every document of the batch is visible
C21_BatchAllOrNothing ==
    [][AddStep =>
          /\ ~ret'.raised
          /\ ret'.upsert.ids = ret'.ids /\ ret'.upsert.documents = ret'.documents
          /\ ~ret'.result => index' = index
          /\ ret'.result => Range(ret'.ids) \subseteq Visible(index', ret'.handle)
      ]_vars

\* C21 witness: a batch of two documents with two metadata records was
\* refused by the index, and the collection still holds d1 only
C21_Witness ==
    /\ ret.op = "add_documents" /\ ~ret.result
    /\ Len(ret.ids) = 2 /\ Len(ret.upsert.metadatas) = 2
    /\ DOMAIN index[ret.handle.collection] = {"d1"}


\* C22: after an add_documents call that returns True each id of the batch
\* holds the text and the metadata of the batch, whether or not the
\* collection held the id before, and every other id holds what it held; a
\* collection has one entry per id; a batch added a second time right after
\* it was added leaves the collection as it is
C22_UpsertReplaces ==
    [][(AddStep /\ ret'.result) =>
          LET before == index[ret'.handle.collection]
              after == index'[ret'.handle.collection]
          IN  /\ DOMAIN after = DOMAIN before \cup Range(ret'.ids)
              /\ \A i \in 1..Len(ret'.ids) :
                    after[ret'.ids[i]] = [document |-> ret'.documents[i],
                                          metadata |-> ret'.upsert.metadatas[i]]
              /\ \A id \in DOMAIN before \ Range(ret'.ids) : after[id] = before[id]
              /\ Len(Query(after, QueryHours, 2 * Len(AllIds),
                           build_where(ret'.handle.company_id, None)).ids)
                    = Cardinality(DOMAIN after)
              /\ (/\ ret.op = "add_documents" /\ ret.result
                  /\ ret.handle = ret'.handle /\ ret.upsert = ret'.upsert)
                 => index' = index
      ]_vars

\* C22 witness: d2 holds the text it got in a batch that gave d1 the other
\* text, and d1 now holds the same text as d2: d1 was replaced afterwards
C22_Witness ==
    /\ ret.op = "add_documents" /\ ret.result /\ ret.ids = <<"d1">>
    /\ DOMAIN index[ret.handle.collection] = {"d1", "d2"}
    /\ index[ret.handle.collection]["d2"].document = TextFees
    /\ index[ret.handle.collection]["d1"].document = TextFees


\* the collections that were provisioned for the tenant
OwnedBy(company_id) == {h.collection : h \in {g \in Handles : g.company_id = company_id}}

\* C23: list_company_collections(t), when the index answers, returns the
\* names of the collections provisioned for tenant t, all of them and no
\* collection of another tenant
C23_ListsOwnCollections ==
    (ret.op = "list_company_collections" /\ ret.answer = "ok") =>
        ret.result = OwnedBy(ret.company_id)


ResultFields == {"documents", "ids", "distances", "metadatas", "relevance_scores"}

\* C24: every value search returns has the fields documents, ids, distances,
\* metadatas and relevance_scores, all of one length
C24_ResultHasOneShape ==
    ret.op = "search" =>
        /\ ResultFields \subseteq DOMAIN ret.result
        /\ \A f \in ResultFields : Len(ret.result[f]) = Len(ret.result.ids)


\* the setting was given neither as argument nor in the environment
Missing(argument, environment) == IsNone(argument) /\ IsNone(environment)

\* C25: constructing the store with the api key, the tenant or the database
\* missing raises an error, makes no client connection, and leaves no store
\* object
C25_MissingSettingFailsFast ==
    (/\ ret.op = "__init__"
     /\ \/ Missing(ret.api_key, ret.CHROMADB_API_KEY)
        \/ Missing(ret.tenant, ret.CHROMADB_TENANT)
        \/ Missing(ret.database, ret.CHROMADB_DATABASE))
    => /\ ret.raised = "ValueError"
       /\ ret.client_calls = 0
       /\ IsNone(ret.store)

\* C25 witness: the constructor was called with the api key as argument, the
\* tenant in the environment and no database anywhere
C25_Witness ==
    /\ ret.op = "__init__"
    /\ ret.api_key = Some("x") /\ ret.CHROMADB_TENANT = Some("x")
    /\ IsNone(ret.tenant)
    /\ Missing(ret.database, ret.CHROMADB_DATABASE)


\* C26: with no retrieved content and no domain information, a query that
\* holds a healthcare term is classified as healthcare, also when it holds
\* keywords of other intents
C26_HealthcareTermsWin ==
    (/\ ret.op = "detect_query_intent"
     /\ ret.doc_types = <<>> /\ IsNone(ret.domain)
     /\ AnyKeywordIn(Lower(ret.query), DictGet(intent_patterns, "healthcare")))
    => ret.result = "healthcare"


\* C27: with a RAG engine that returns a non-empty answer,
\* _generate_rag_enhanced_response makes one search_and_generate call, with
\* the user's query and the session id it was given, and returns a reply
\* that holds the answer, whether the context manager is absent, raises, or
\* returns a context
C27_RagAnswerIsReturned ==
    (/\ ret.op = "generate_rag_enhanced_response"
     /\ ret.rag = "answer" /\ Truthy(ret.session_id))
    => /\ Len(ret.rag_calls) = 1
       /\ ret.rag_calls[1].query = ret.user_query
       /\ ret.rag_calls[1].session_id = Val(ret.session_id)
       /\ ~IsNone(ret.result)
       /\ Contains(Val(ret.result), ret.answer)

\* C27 witness: the context manager returned a context with a turn and a
\* topic, the query was a follow-up, and the reply is longer than the answer
C27_Witness ==
    /\ ret.op = "generate_rag_enhanced_response"
    /\ ret.rag = "answer" /\ Truthy(ret.session_id)
    /\ ret.manager = "turn_fails" /\ ret.context.turns = 1
    /\ ~IsNone(ret.result) /\ Len(Val(ret.result)) > Len(ret.answer)


\* every dependency of the agent's constructor works
DependenciesWork ==
    /\ ret.config
    /\ \A f \in {"stt", "llm", "tts", "knowledge_base", "rag_engine",
                 "learning_engine", "base"} : ret[f] = "ok"

\* C28: an agent constructed with working dependencies has a knowledge base,
\* a RAG engine, a context manager and a learning engine; the knowledge base
\* was constructed once and the RAG engine once, with that knowledge base
C28_AgentHasAllComponents ==
    (ret.op = "BusinessVoiceAgent" /\ DependenciesWork) =>
        /\ ~IsNone(ret.agent)
        /\ ~IsNone(Val(ret.agent).knowledge_base)
        /\ ~IsNone(Val(ret.agent).rag_engine)
        /\ ~IsNone(Val(ret.agent).context_manager)
        /\ ~IsNone(Val(ret.agent).learning_engine)
        /\ ret.knowledge_base_calls = 1
        /\ ret.rag_engine_calls = <<Val(Val(ret.agent).knowledge_base)>>


\* C29: a search on one collection returns no result that a search on
\* another collection of the store computed: every document it returns is in
\* the collection that was searched
C29_ResultFromSearchedCollection ==
    ret.op = "search" =>
        \A i \in 1..Len(ret.result.ids) :
            /\ ret.result.ids[i] \in DOMAIN index[ret.handle.collection]
            /\ index[ret.handle.collection][ret.result.ids[i]].document
                  = ret.result.documents[i]


\* C30: a search whose index query succeeded returns the candidates the
\* index gave it (reranked when hybrid), whatever other threads do to the
\* cache at the same time
C30_AnsweredSearchKeepsResult ==
    \A th \in Threads :
        (/\ pc[th] = "idle" /\ frame[th].op = "search"
         /\ "error" \in DOMAIN frame[th] /\ frame[th].error # "query")
        => frame[th].result =
              search_results(index[frame[th].handle.collection],
                             frame[th].handle.company_id, frame[th].query_text,
                             frame[th].n_results, frame[th].filters,
                             frame[th].use_hybrid)


\* C31: add_documents leaves the search cache as it is, whether the index
\* accepted the batch or not, and a search that comes right after an add and
\* whose key has an entry younger than cache_ttl returns that entry's result
\* without an index query
C31_AddKeepsCache ==
    [][/\ AddStep => search_cache' = search_cache
       /\ (ret.op = "add_documents" /\ SearchStep
              /\ Servable(search_cache, CallKey, now))
          => /\ IsNone(ret'.queried)
             /\ ret'.result = search_cache[CallKey].results
      ]_vars

\* C31 witness: the store has one collection, and a search of it was
\* answered from the cache with no document although the collection holds
\* d1: the document was added after the entry was stored
C31_Witness ==
    /\ ret.op = "search" /\ IsNone(ret.queried) /\ IsNone(ret.filters)
    /\ Cardinality(DOMAIN index) = 1
    /\ Len(ret.result.ids) = 0
    /\ "d1" \in DOMAIN index[ret.handle.collection]
    /\ TagOf(index[ret.handle.collection]["d1"].metadata) = ret.handle.company_id


\* the index query of the call that ret' describes was made and raised
QueryFailed == ~IsNone(ret'.queried) /\ Val(ret'.queried).answer = "raise"

\* the index query of the call that ret' describes was made and answered
QueryAnswered == ~IsNone(ret'.queried) /\ Val(ret'.queried).answer = "ok"

\* the call that ret' describes has the arguments of the call before it
SameCall ==
    /\ ret.op = "search" /\ ret'.handle = ret.handle
    /\ ret'.query_text = ret.query_text /\ ret'.n_results = ret.n_results
    /\ ret'.filters = ret.filters /\ ret'.use_hybrid = ret.use_hybrid

\* C32: a search whose index query raised leaves the cache as it is, and the
\* same search made right after it queries the index again; a search whose
\* index query answered, with candidates or with none, stores its result
\* under its key with the time of the insertion; no search changes the cache
\* otherwise, and the cache never holds the empty result of a failed query
C32_OnlyAnswersAreCached ==
    [][SearchStep =>
          /\ QueryFailed => search_cache' = search_cache
          /\ ("queried" \in DOMAIN ret /\ SameCall
                 /\ ~IsNone(ret.queried) /\ Val(ret.queried).answer = "raise")
             => ~IsNone(ret'.queried)
          /\ QueryAnswered =>
                /\ CallKey \in DOMAIN search_cache'
                /\ search_cache'[CallKey] = [timestamp |-> now, results |-> ret'.result]
          /\ search_cache' # search_cache => QueryAnswered
          /\ \A k \in DOMAIN search_cache' : search_cache'[k].results # EmptyResults
      ]_vars

\* C32 witness: the index query of a search raised at a time when the cache
\* held an entry for the search's key that was too old to be served, and the
\* entry is still there
C32_Witness ==
    /\ ret.op = "search" /\ ~IsNone(ret.queried) /\ Val(ret.queried).answer = "raise"
    /\ LET k == get_cache_key(ret.query_text, ret.filters, ret.n_results)
       IN  /\ k \in DOMAIN search_cache
           /\ now - search_cache[k].timestamp >= cache_ttl
           /\ Len(search_cache[k].results.ids) = 0


\* the registry key of the get_collection call that ret' describes
CallPair == collection_name(ret'.company_id, ret'.collection_type)

\* C33: a get_collection call raises exactly when it asked the index to
\* provision its collection and the index refused; the registry is then as
\* it was before, with no handle under the call's key; and the next
\* get_collection call for the same pair asks the index to provision again
C33_FailedProvisionLeavesNoHandle ==
    [][GetCollectionStep =>
          /\ ret'.raised <=> CallPair \notin DOMAIN company_collections'
          /\ ret'.raised =>
                /\ company_collections' = company_collections
                /\ provision_calls'[CallPair] = provision_calls[CallPair] + 1
          /\ (/\ ret.op = "get_collection" /\ ret.raised
              /\ ret.company_id = ret'.company_id
              /\ ret.collection_type = ret'.collection_type)
             => provision_calls'[CallPair] = provision_calls[CallPair] + 1
      ]_vars

\* C33 witness: get_collection('a_b', 'c') has returned a handle from its
\* second provisioning, the first having failed, while the store holds the
\* handle of another pair
C33_Witness ==
    /\ ret.op = "get_collection" /\ ~ret.raised
    /\ ret.company_id = "a_b" /\ ret.collection_type = "c"
    /\ ret.handle.serial = 2 /\ provision_calls["a_b_c"] = 2
    /\ "a_c" \in DOMAIN company_collections


\* C34: the keyword score is the number of keywords of the list that occur in
\* the lower-cased text over the length of the list (0 for the empty list),
\* with or without the keywords joined by single spaces occurring in the
\* text: when the joined phrase occurs, every keyword occurs and the score
\* is 1.0 before the bonus
C34_PhraseBonusChangesNothing ==
    ret.op = "calculate_keyword_score" =>
        LET text_lower == Lower(ret.text)
            occurring == {i \in 1..Len(ret.keywords) :
                             Contains(text_lower, ret.keywords[i])}
            phrase == Len(ret.keywords) > 0
                      /\ Contains(text_lower, Join(" ", ret.keywords))
        IN  /\ ret.result = IF Len(ret.keywords) = 0 THEN 0
                            ELSE (Cardinality(occurring) * KwOne) \div Len(ret.keywords)
            /\ phrase => Cardinality(occurring) = Len(ret.keywords)

\* C34 witness: a list of two different keywords was scored against a text
\* that holds them as one phrase
C34_Witness ==
    /\ ret.op = "calculate_keyword_score"
    /\ Len(ret.keywords) = 2 /\ ret.keywords[1] # ret.keywords[2]
    /\ Contains(Lower(ret.text), Join(" ", ret.keywords))
    /\ ret.result = KwOne


\* C35: the reranked result is a selection of the index's candidates in a new
\* order: its five lists have one length, each position holds the id, the
\* text, the distance and the metadata of one candidate of the index's
\* answer, no candidate is at two positions, and the relevance score of a
\* position is the combined score of the candidate at that position
C35_RerankSelectsCandidates ==
    ret.op = "apply_hybrid_search" =>
        LET v == ret.vector_results
            r == ret.result
        IN  /\ \A f \in ResultFields : Len(r[f]) = Len(r.ids)
            /\ \E sel \in [1..Len(r.ids) -> 1..Len(v.ids)] :
                  /\ \A k, l \in 1..Len(r.ids) : sel[k] = sel[l] => k = l
                  /\ \A k \in 1..Len(r.ids) :
                        /\ r.ids[k] = v.ids[sel[k]]
                        /\ r.documents[k] = v.documents[sel[k]]
                        /\ r.distances[k] = v.distances[sel[k]]
                        /\ r.metadatas[k] = v.metadatas[sel[k]]
                        /\ r.relevance_scores[k] = ScoreAt(ret.query_text, v, sel[k])

\* C35 witness: of three candidates that each have metadata of their own the
\* reranker returned two, the index's third before its first
C35_Witness ==
    /\ ret.op = "apply_hybrid_search"
    /\ Len(ret.vector_results.ids) = 3 /\ ret.n_results = 2
    /\ ret.result.ids = <<"c3", "c1">>
    /\ ret.result.metadatas = <<SectionMetadata(3), SectionMetadata(1)>>


\* C36: google_api_calls never exceeds max_google_calls and the wrapped LLM
\* is called at most max_google_calls times, also when reply requests overlap
C36_CallsWithinLimit ==
    /\ session.google_api_calls <= max_google_calls
    /\ session.llm_calls <= max_google_calls


\* the step is one of the request of task t
TaskStep(t) == pc'[t] # pc[t] \/ frame'[t] # frame[t]

\* the replies that are a RAG response, with or without learned information
RagOnlyReplies ==
    {Val(combine(r, l)) : r \in {q \in RagResponses : Truthy(q)},
                          l \in LearnedResults \ {"raise"}}
    \cup {Val(combine(None, "usable"))}

\* C37: fallback_mode, once true, stays true; it becomes true only at the
\* start of a request that finds google_api_calls at the limit or when a
\* call of the wrapped LLM has failed, and in both cases it does become true;
\* and a request that started while it was true never calls the wrapped LLM,
\* never increments google_api_calls, and returns a RAG response or one of
\* the canned replies
C37_FallbackIsLatch ==
    [][/\ session.fallback_mode => session'.fallback_mode
       /\ \A t \in Threads :
             LET starts == TaskStep(t) /\ pc[t] = "idle"
                 llm_failed == pc[t] = "llm" /\ pc'[t] = "idle"
                               /\ frame'[t].result # LlmReply
             IN  /\ (starts /\ session.google_api_calls >= max_google_calls)
                       => session'.fallback_mode
                 /\ llm_failed => session'.fallback_mode
                 /\ (TaskStep(t) /\ ~session.fallback_mode /\ session'.fallback_mode)
                       => \/ starts /\ session.google_api_calls >= max_google_calls
                          \/ llm_failed
                 /\ (TaskStep(t) /\ frame'[t].fallback_at_start) =>
                       /\ pc'[t] # "llm"
                       /\ session'.google_api_calls = session.google_api_calls
                       /\ session'.llm_calls = session.llm_calls
                       /\ pc'[t] = "idle" =>
                             frame'[t].result \in CannedReplies \cup RagOnlyReplies
      ]_vars

\* C37 witness: a request that started in fallback mode, well below the call
\* limit, has returned the RAG response while another request is waiting
\* for the wrapped LLM
C37_Witness ==
    /\ session.fallback_mode /\ session.google_api_calls < max_google_calls
    /\ \E t \in Threads :
          /\ pc[t] = "idle" /\ frame[t].op = "generate_reply"
          /\ frame[t].fallback_at_start
          /\ frame[t].result \in RagOnlyReplies
    /\ \E t \in Threads : pc[t] = "llm"


\* C38: a run of entrypoint calls ctx.connect at most max_retries times, each
\* call under the connection timeout; session.start is called only after a
\* call of ctx.connect has succeeded; and when none of the max_retries
\* attempts succeeds the run ends with an error and session.start is not
\* called
C38_ConnectAttemptsBounded ==
    ret.op = "entrypoint" =>
        /\ Len(ret.connect_calls) <= max_retries
        /\ \A i \in 1..Len(ret.connect_calls) :
              ret.connect_calls[i].timeout = Some(connection_timeout)
        /\ ret.session_started =>
              \E i \in 1..Len(ret.connect_calls) : ret.connect_calls[i].outcome = "ok"
        /\ (ret.world.config /\ ret.world.agent = "ok"
               /\ \A i \in 1..max_retries : ret.world.connects[i] # "ok")
           => ret.raised # "none" /\ ~ret.session_started

=============================================================================
